---- MODULE Spec2Model ----
(***************************************************************************)
(* Qwiklip: the Instagram media-extraction client (package instagram) and  *)
(* the typed errors of package models.                                     *)
(*                                                                         *)
(* One call of Client.GetMediaInfo is followed step by step: the           *)
(* identifier is parsed, the four fetch candidates are requested in order  *)
(* against a transport whose answers are chosen by the environment, and    *)
(* the page body of the first 2xx answer goes through the extraction       *)
(* cascade.  Go strings are TLA+ strings handled character by character    *)
(* (Len, SubSeq, \o); decoded JSON is a tagged tree.                       *)
(***************************************************************************)
EXTENDS Integers, Sequences, FiniteSets, TLC

(***************************************************************************)
(* Go strings                                                              *)
(***************************************************************************)

\* s[i:i+1]
CharAt(s, i) == SubSeq(s, i, i)

\* strings.HasPrefix(s[i-1:], t) for a 1-based position i (the first
\* character is compared before the rest)
MatchAt(s, i, t) == /\ i >= 1
                    /\ i + Len(t) - 1 <= Len(s)
                    /\ \/ Len(t) = 0
                       \/ /\ SubSeq(s, i, i) = SubSeq(t, 1, 1)
                          /\ SubSeq(s, i, i + Len(t) - 1) = t

\* strings.Contains
Contains(s, t) == \E i \in 1..(Len(s) - Len(t) + 1) : MatchAt(s, i, t)

\* the least and the greatest position of a set of positions; the least is
\* 0 for the empty set
Least(S)    == IF S = {} THEN 0 ELSE CHOOSE i \in S : \A j \in S : i <= j
Greatest(S) == CHOOSE i \in S : \A j \in S : i >= j

\* strings.Index, 1-based from position `from`; 0 when t does not occur
IndexFrom(s, t, from) ==
    Least({i \in from..(Len(s) - Len(t) + 1) : MatchAt(s, i, t)})

UpperLetters == "ABCDEFGHIJKLMNOPQRSTUVWXYZ"
LowerLetters == "abcdefghijklmnopqrstuvwxyz"

\* the lower-case letter of each upper-case ASCII letter
LowerOf ==
    [ch \in {CharAt(UpperLetters, k) : k \in 1..Len(UpperLetters)} |->
        CharAt(LowerLetters,
               CHOOSE k \in 1..Len(UpperLetters) : CharAt(UpperLetters, k) = ch)]

\* unicode.ToLower on one ASCII character
LowerChar(ch) ==
    LET Mapped(lower) == IF ch \in DOMAIN lower THEN lower[ch] ELSE ch
    IN  Mapped(LowerOf)

\* strings.ToLower (split in halves to keep the evaluation shallow)
RECURSIVE ToLower(_)
ToLower(s) ==
    IF Len(s) = 0 THEN ""
    ELSE IF Len(s) = 1 THEN LowerChar(s)
    ELSE LET h == Len(s) \div 2
         IN  ToLower(SubSeq(s, 1, h)) \o ToLower(SubSeq(s, h + 1, Len(s)))

\* a trim that leaves the trailing slash in place
TrimSuffixNone(s, suf) == s

\* strings.TrimSuffix
TrimSuffix(s, suf) ==
    IF Len(s) >= Len(suf) /\ SubSeq(s, Len(s) - Len(suf) + 1, Len(s)) = suf
    THEN SubSeq(s, 1, Len(s) - Len(suf))
    ELSE s

\* strings.Split(s, sep) for a non-empty separator
RECURSIVE Split(_, _)
Split(s, sep) ==
    LET Cut(i) == IF i = 0 THEN <<s>>
                  ELSE <<SubSeq(s, 1, i - 1)>>
                       \o Split(SubSeq(s, i + Len(sep), Len(s)), sep)
    IN  Cut(IndexFrom(s, sep, 1))

(***************************************************************************)
(* package models: AppError and its constructors                           *)
(***************************************************************************)

ErrorTypeInvalidURL     == "invalid_url"
ErrorTypeNetwork        == "network"
ErrorTypeExtraction     == "extraction"
ErrorTypeParsing        == "parsing"
ErrorTypeNotFound       == "not_found"
ErrorTypeUnsupported    == "unsupported"
ErrorTypeAuthentication == "authentication"
ErrorTypeRateLimited    == "rate_limited"

\* the closed set of ErrorType constants
ErrorType == { ErrorTypeInvalidURL, ErrorTypeNetwork, ErrorTypeExtraction,
               ErrorTypeParsing, ErrorTypeNotFound, ErrorTypeUnsupported,
               ErrorTypeAuthentication, ErrorTypeRateLimited }

\* An error value.  typed = TRUE is a *models.AppError (errors.As succeeds),
\* typed = FALSE is a plain error made by fmt.Errorf; detail is the single
\* entry of AppError.Details.
AppError(type, message, detail) ==
    [typed |-> TRUE, type |-> type, message |-> message, detail |-> detail]

\* fmt.Errorf(...): an error that is not an AppError
Errorf(message) ==
    [typed |-> FALSE, type |-> "", message |-> message, detail |-> ""]

NewInvalidURLError(url) ==
    AppError(ErrorTypeInvalidURL, "invalid Instagram URL: " \o url, url)

NewNetworkError(operation) ==
    AppError(ErrorTypeNetwork, "network error during " \o operation, operation)

NewExtractionError(shortcode) ==
    AppError(ErrorTypeExtraction,
             "failed to extract media info for shortcode: " \o shortcode, shortcode)

NewNotFoundError(resource) ==
    AppError(ErrorTypeNotFound, resource \o " not found", resource)

NewRateLimitedError(retryAfter) ==
    AppError(ErrorTypeRateLimited, "rate limited by Instagram", retryAfter)

(***************************************************************************)
(* Client.ExtractShortcode                                                 *)
(***************************************************************************)

HexDigits == "0123456789abcdefABCDEF"

IsHex(ch) == Len(ch) = 1 /\ Contains(HexDigits, ch)

\* net/url: the part of the URL before '#' and '?'
CutAt(s, ch) == LET Cut(i) == IF i = 0 THEN s ELSE SubSeq(s, 1, i - 1)
                IN  Cut(IndexFrom(s, ch, 1))

\* url.Parse fails on a '%' that does not start a %XX escape
URLParseFails(urlStr) ==
    \E i \in 1..Len(urlStr) :
        /\ CharAt(urlStr, i) = "%"
        /\ ~(/\ i + 2 <= Len(urlStr)
             /\ IsHex(CharAt(urlStr, i + 1))
             /\ IsHex(CharAt(urlStr, i + 2)))

\* url.Parse(urlStr).Path for URLs without percent escapes: the scheme and
\* the authority are removed when present, the query and fragment cut off
URLPath(urlStr) ==
    LET FromSlash(after, slash) ==
            IF slash = 0 THEN "" ELSE SubSeq(after, slash, Len(after))
        AfterAuthority(after) == FromSlash(after, IndexFrom(after, "/", 1))
        FromScheme(rest, scheme) ==
            IF scheme = 0 THEN rest
            ELSE AfterAuthority(SubSeq(rest, scheme + 3, Len(rest)))
        PathOf(rest) == FromScheme(rest, IndexFrom(rest, "://", 1))
    IN  PathOf(CutAt(CutAt(urlStr, "#"), "?"))

\* The result of ExtractShortcode: [ok, shortcode, err]
ExtractShortcode(urlStr) ==
    IF ~Contains(urlStr, "instagram.com")
    THEN [ok |-> FALSE, shortcode |-> "",
          err |-> Errorf("not an Instagram URL: " \o urlStr)]
    ELSE IF URLParseFails(urlStr)
    THEN [ok |-> FALSE, shortcode |-> "",
          err |-> Errorf("invalid URL: " \o urlStr)]
    ELSE LET Pick(segments, n) ==
                 IF n >= 3 /\ segments[n - 1] \in {"p", "reel", "tv"}
                 THEN [ok |-> TRUE, shortcode |-> segments[n], err |-> Errorf("")]
                 ELSE [ok |-> FALSE, shortcode |-> "",
                       err |-> Errorf("could not extract shortcode from URL: " \o urlStr)]
             FromSegments(segments) == Pick(segments, Len(segments))
         IN  FromSegments(Split(TrimSuffix(URLPath(urlStr), "/"), "/"))

(***************************************************************************)
(* Decoded JSON: map[string]interface{} trees                              *)
(***************************************************************************)

\* A decoded value carries its dynamic type; a Go type assertion x.(T) with
\* the comma-ok form succeeds exactly when the tag is the one of T.
Nil      == [t |-> "nil",  v |-> <<>>]
JBool(b) == [t |-> "bool", v |-> b]
JNum(n)  == [t |-> "num",  v |-> n]
JStr(s)  == [t |-> "str",  v |-> s]
JArr(a)  == [t |-> "arr",  v |-> a]
JObj(f)  == [t |-> "obj",  v |-> f]

IsObj(x)  == x.t = "obj"
IsArr(x)  == x.t = "arr"
IsStr(x)  == x.t = "str"
IsTrue(x) == x.t = "bool" /\ x.v

\* m[key] on a value already asserted to be a map; a missing key is nil.
\* On a value that is not a map the probe yields nil as well, which is what
\* a failed comma-ok assertion leaves behind.
Get(x, key) == IF IsObj(x) /\ key \in DOMAIN x.v THEN x.v[key] ELSE Nil

\* the string held by a value asserted to be a string
StrOf(x) == IF IsStr(x) THEN x.v ELSE ""

JSONDocs ==
    << \* shape A, video
       [text |-> "{\"require\":[{\"0\":\"PostPage\",\"1\":{\"graphql\":{\"shortcode_media\":{\"is_video\":true,\"video_url\":\"https://cdn.example/a.mp4\",\"owner\":{\"username\":\"alice\"},\"edge_media_to_caption\":{\"edges\":[{\"node\":{\"text\":\"hi\"}}]}}}}}]}",
        tree |-> JObj("require" :> JArr(<<JObj("0" :> JStr("PostPage") @@ "1" :> JObj("graphql" :> JObj("shortcode_media" :> JObj("is_video" :> JBool(TRUE) @@ "video_url" :> JStr("https://cdn.example/a.mp4") @@ "owner" :> JObj("username" :> JStr("alice")) @@ "edge_media_to_caption" :> JObj("edges" :> JArr(<<JObj("node" :> JObj("text" :> JStr("hi")))>>))))))>>))],
       \* shape A, PostPage entry without "1"
       [text |-> "{\"require\":[{\"0\":\"PostPage\"}]}",
        tree |-> JObj("require" :> JArr(<<JObj("0" :> JStr("PostPage"))>>))],
       \* shape A, PostPage entry whose "1" is a string
       [text |-> "{\"require\":[{\"0\":\"PostPage\",\"1\":\"x\"}]}",
        tree |-> JObj("require" :> JArr(<<JObj("0" :> JStr("PostPage") @@ "1" :> JStr("x"))>>))],
       \* shape A, not a video
       [text |-> "{\"require\":[{\"0\":\"PostPage\",\"1\":{\"graphql\":{\"shortcode_media\":{\"is_video\":false}}}}]}",
        tree |-> JObj("require" :> JArr(<<JObj("0" :> JStr("PostPage") @@ "1" :> JObj("graphql" :> JObj("shortcode_media" :> JObj("is_video" :> JBool(FALSE)))))>>))],
       \* shape A without owner
       [text |-> "{\"require\":[{\"0\":\"PostPage\",\"1\":{\"graphql\":{\"shortcode_media\":{\"is_video\":true,\"video_url\":\"https://cdn.example/a.mp4\"}}}}]}",
        tree |-> JObj("require" :> JArr(<<JObj("0" :> JStr("PostPage") @@ "1" :> JObj("graphql" :> JObj("shortcode_media" :> JObj("is_video" :> JBool(TRUE) @@ "video_url" :> JStr("https://cdn.example/a.mp4")))))>>))],
       \* shape C
       [text |-> "{\"items\":[{\"is_video\":true,\"video_url\":\"https://cdn.example/a.mp4\"}]}",
        tree |-> JObj("items" :> JArr(<<JObj("is_video" :> JBool(TRUE) @@ "video_url" :> JStr("https://cdn.example/a.mp4"))>>))],
       \* shapes B, C and E at once, each with its own URL
       [text |-> "{\"items\":[{\"video_versions\":[{\"url\":\"https://cdn.example/c.mp4\"}]}],\"entry_data\":{\"PostPage\":[{\"shortcode_media\":{\"video_versions\":[{\"url\":\"https://cdn.example/b.mp4\"}]}}]},\"graphql\":{\"shortcode_media\":{\"is_video\":true,\"video_url\":\"https://cdn.example/e.mp4\"}}}",
        tree |-> JObj("items" :> JArr(<<JObj("video_versions" :> JArr(<<JObj("url" :> JStr("https://cdn.example/c.mp4"))>>))>>) @@ "entry_data" :> JObj("PostPage" :> JArr(<<JObj("shortcode_media" :> JObj("video_versions" :> JArr(<<JObj("url" :> JStr("https://cdn.example/b.mp4"))>>)))>>)) @@ "graphql" :> JObj("shortcode_media" :> JObj("is_video" :> JBool(TRUE) @@ "video_url" :> JStr("https://cdn.example/e.mp4"))))],
       \* shape A with an empty video_url next to shape E
       [text |-> "{\"require\":[{\"0\":\"PostPage\",\"1\":{\"graphql\":{\"shortcode_media\":{\"is_video\":true,\"video_url\":\"\"}}}}],\"graphql\":{\"shortcode_media\":{\"is_video\":true,\"video_url\":\"https://cdn.example/e.mp4\"}}}",
        tree |-> JObj("require" :> JArr(<<JObj("0" :> JStr("PostPage") @@ "1" :> JObj("graphql" :> JObj("shortcode_media" :> JObj("is_video" :> JBool(TRUE) @@ "video_url" :> JStr("")))))>>) @@ "graphql" :> JObj("shortcode_media" :> JObj("is_video" :> JBool(TRUE) @@ "video_url" :> JStr("https://cdn.example/e.mp4"))))],
       \* shape C, a URL whose ampersand is escaped twice in the text
       [text |-> "{\"items\":[{\"video_versions\":[{\"url\":\"https://cdn.example/s.mp4?a=1\\\\u0026b=2\"}]}]}",
        tree |-> JObj("items" :> JArr(<<JObj("video_versions" :> JArr(<<JObj("url" :> JStr("https://cdn.example/s.mp4?a=1\\u0026b=2"))>>))>>))],
       \* shape C, first item not an object
       [text |-> "{\"items\":[\"x\"]}",
        tree |-> JObj("items" :> JArr(<<JStr("x")>>))],
       \* shape C hit next to a require entry without "1"
       [text |-> "{\"require\":[{\"0\":\"Other\"}],\"items\":[{\"video_versions\":[{\"url\":\"https://cdn.example/c.mp4\"}]}]}",
        tree |-> JObj("require" :> JArr(<<JObj("0" :> JStr("Other"))>>) @@ "items" :> JArr(<<JObj("video_versions" :> JArr(<<JObj("url" :> JStr("https://cdn.example/c.mp4"))>>))>>))],
       \* no known shape, a video_url deeper in the tree
       [text |-> "{\"data\":{\"video_url\":\"https://cdn.example/r.mp4\"}}",
        tree |-> JObj("data" :> JObj("video_url" :> JStr("https://cdn.example/r.mp4")))],
       \* no known shape, no video anywhere
       [text |-> "{\"config\":{\"viewer\":null}}",
        tree |-> JObj("config" :> JObj("viewer" :> Nil))],
       \* shape B
       [text |-> "{\"entry_data\":{\"PostPage\":[{\"shortcode_media\":{\"video_versions\":[{\"url\":\"https://cdn.example/b.mp4\"}]}}]}}",
        tree |-> JObj("entry_data" :> JObj("PostPage" :> JArr(<<JObj("shortcode_media" :> JObj("video_versions" :> JArr(<<JObj("url" :> JStr("https://cdn.example/b.mp4"))>>)))>>)))],
       \* shape D, two matching keys
       [text |-> "{\"ROOT_QUERY\":{},\"Media:ABC123\":{\"video_url\":\"https://cdn.example/d1.mp4\",\"videoUrl\":\"https://cdn.example/d0.mp4\"},\"ShortcodeMedia:ABC123\":{\"videoUrl\":\"https://cdn.example/d2.mp4\"}}",
        tree |-> JObj("ROOT_QUERY" :> JObj(<<>>) @@ "Media:ABC123" :> JObj("video_url" :> JStr("https://cdn.example/d1.mp4") @@ "videoUrl" :> JStr("https://cdn.example/d0.mp4")) @@ "ShortcodeMedia:ABC123" :> JObj("videoUrl" :> JStr("https://cdn.example/d2.mp4")))],
       \* shape E
       [text |-> "{\"graphql\":{\"shortcode_media\":{\"is_video\":true,\"video_url\":\"https://cdn.example/e.mp4\"}}}",
        tree |-> JObj("graphql" :> JObj("shortcode_media" :> JObj("is_video" :> JBool(TRUE) @@ "video_url" :> JStr("https://cdn.example/e.mp4"))))],
       \* preloader payload, flat item
       [text |-> "{\"__bbox\":{\"complete\":true,\"result\":{\"data\":{\"xdt_api__v1__media__shortcode__web_info\":{\"items\":[{\"id\":\"1\"}]}}}}}",
        tree |-> JObj("__bbox" :> JObj("complete" :> JBool(TRUE) @@ "result" :> JObj("data" :> JObj("xdt_api__v1__media__shortcode__web_info" :> JObj("items" :> JArr(<<JObj("id" :> JStr("1"))>>))))))] >>

\* json.Unmarshal(text, &map[string]interface{}): the decoded tree of the
\* texts listed in JSONDocs; every other text used in a page body is not a
\* JSON object and fails to decode.
Unmarshal(text) ==
    LET Decode(docs) ==
            IF \E k \in 1..Len(docs) : docs[k].text = text
            THEN [ok |-> TRUE,
                  data |-> docs[CHOOSE k \in 1..Len(docs) : docs[k].text = text].tree]
            ELSE [ok |-> FALSE, data |-> Nil]
    IN  Decode(JSONDocs)

(***************************************************************************)
(* Client.extractJSONData                                                  *)
(***************************************************************************)

WhiteSpace == {" ", "\t", "\n", "\r", "\f"}

\* strings.TrimSpace
TrimSpace(s) ==
    LET Space(i) == CharAt(s, i) \in WhiteSpace
    IN  IF \A i \in 1..Len(s) : Space(i) THEN ""
        ELSE SubSeq(s, CHOOSE i \in 1..Len(s) :
                            ~Space(i) /\ \A j \in 1..(i - 1) : Space(j),
                       CHOOSE i \in 1..Len(s) :
                            ~Space(i) /\ \A j \in (i + 1)..Len(s) : Space(j))

\* FindStringSubmatch for a pattern `open(.*?)close`: the leftmost place
\* where open occurs and close follows on the same line (`.` matches no
\* newline); the group is the text up to the first close.
Landmark(html, open, close) ==
    LET Stop(i)        == IndexFrom(html, close, i + Len(open))
        Group(i, stop) == SubSeq(html, i + Len(open), stop - 1)
        Closed(i, stop) == stop > 0 /\ ~Contains(Group(i, stop), "\n")
        Hit(i)         == MatchAt(html, i, open) /\ Closed(i, Stop(i))
        From(first)    == IF first = 0 THEN [found |-> FALSE, group |-> ""]
                          ELSE [found |-> TRUE, group |-> Group(first, Stop(first))]
    IN  From(Least({i \in 1..Len(html) : Hit(i)}))

\* FindStringSubmatch for `window\.__additionalDataLoaded\('.*?',(.*?)\);`:
\* the first lazy run ends at the first "'," and the group at the first ");"
\* after it, all on one line.
AdditionalDataLandmark(html) ==
    LET open            == "window.__additionalDataLoaded('"
        Comma(i)        == IndexFrom(html, "',", i + Len(open))
        StopAfter(comma) == IF comma = 0 THEN 0 ELSE IndexFrom(html, ");", comma + 2)
        Closed(i, stop) == stop > 0 /\ ~Contains(SubSeq(html, i, stop - 1), "\n")
        Hit(i)          == MatchAt(html, i, open) /\ Closed(i, StopAfter(Comma(i)))
        Group(comma)    == SubSeq(html, comma + 2, StopAfter(comma) - 1)
        From(first)     == IF first = 0 THEN [found |-> FALSE, group |-> ""]
                           ELSE [found |-> TRUE, group |-> Group(Comma(first))]
    IN  From(Least({i \in 1..Len(html) : Hit(i)}))

\* jsonPatterns, in list order.  kind "group" is a pattern with a capture
\* group, "direct" the special-cased `^\{"items":`, and "nogroup" the last
\* pattern, which has no capture group, so that len(matches) > 1 never holds.
jsonPatterns ==
    << [kind |-> "group",   open |-> "<script type=\"application/json\" data-sjs>",
                            close |-> "</script>"],
       [kind |-> "loaded",  open |-> "window.__additionalDataLoaded('",
                            close |-> ");"],
       [kind |-> "group",   open |-> "<script type=\"text/javascript\">window._sharedData = ",
                            close |-> ";</script>"],
       [kind |-> "group",   open |-> "window.__APOLLO_STATE__ = ",
                            close |-> ";</script>"],
       [kind |-> "group",   open |-> "window.__INITIAL_DATA__ = ",
                            close |-> ";</script>"],
       [kind |-> "direct",  open |-> "{\"items\":", close |-> ""],
       [kind |-> "nogroup", open |-> "{\"graphql\":{\"shortcode_media\":", close |-> ""] >>

\* One turn of the loop over jsonPatterns: "data" (decoded, returned),
\* "next" (continue with the next pattern) or "panic" (the slice
\* strings.TrimSpace(html)[:9] of a string shorter than 9 bytes).
TryJSONPattern(html, pat) ==
    LET Decoded(un) == IF un.ok THEN [kind |-> "data", data |-> un.data]
                       ELSE [kind |-> "next", data |-> Nil]
        Direct(trimmed) ==
            IF Len(trimmed) < Len(pat.open)
            THEN [kind |-> "panic", data |-> Nil]
            ELSE IF SubSeq(trimmed, 1, Len(pat.open)) = pat.open
            THEN Decoded(Unmarshal(html))
            ELSE [kind |-> "next", data |-> Nil]
        Matched(m) == IF m.found THEN Decoded(Unmarshal(m.group))
                      ELSE [kind |-> "next", data |-> Nil]
    IN  IF pat.kind = "direct" THEN Direct(TrimSpace(html))
        ELSE IF pat.kind = "nogroup" THEN [kind |-> "next", data |-> Nil]
        ELSE Matched(IF pat.kind = "loaded" THEN AdditionalDataLandmark(html)
                     ELSE Landmark(html, pat.open, pat.close))

RECURSIVE ExtractJSONFrom(_, _)
ExtractJSONFrom(html, k) ==
    IF k > Len(jsonPatterns)
    THEN [kind |-> "err", data |-> Nil]
    ELSE LET Turn(r) == IF r.kind = "next" THEN ExtractJSONFrom(html, k + 1) ELSE r
         IN  Turn(TryJSONPattern(html, jsonPatterns[k]))

\* extractJSONData(html): kind "data" with the decoded object, kind "err"
\* for fmt.Errorf("could not extract JSON data"), or kind "panic"
extractJSONData(html) == ExtractJSONFrom(html, 1)

(***************************************************************************)
(* Raw-text scans: extractDirectVideoURL, extractFallbackVideoURL          *)
(***************************************************************************)

Digits == "0123456789"

\* membership of one character in the character classes the patterns use
InClass(ch, class) ==
    CASE class = "digits"   -> Contains(Digits, ch)
      [] class = "space"    -> ch \in WhiteSpace
      [] class = "notbrace" -> ch # "}"
      [] class = "notquote" -> ch # "\""
      [] OTHER              -> FALSE

\* the length of the longest run of characters of a class starting at i
RunLen(text, i, class) ==
    LET Upto(stop) == IF stop = 0 THEN Len(text) - i + 1 ELSE stop - i
    IN  Upto(Least({j \in i..Len(text) : ~InClass(CharAt(text, j), class)}))

Lit(s)       == [k |-> "lit", s |-> s, min |-> 0]
Star(class)  == [k |-> class, s |-> "", min |-> 0]
Plus(class)  == [k |-> class, s |-> "", min |-> 1]

\* The positions at which the elements elems[n..] of a pattern, matched from
\* position i on, can end (one past the last matched character).
RECURSIVE PrefixEnds(_, _, _, _)
PrefixEnds(text, i, elems, n) ==
    IF n > Len(elems) THEN {i}
    ELSE IF elems[n].k = "lit"
    THEN IF MatchAt(text, i, elems[n].s)
         THEN PrefixEnds(text, i + Len(elems[n].s), elems, n + 1)
         ELSE {}
    ELSE UNION { PrefixEnds(text, i + l, elems, n + 1) :
                    l \in elems[n].min..RunLen(text, i, elems[n].k) }

\* The capture group of the video patterns and the closing quote after it:
\* (https://[^"]+)" , (https://[^"]+\.mp4[^"]*)" , ([^"]+\.mp4[^"]*)" or
\* ([^"]+)" ; the group is the run up to the next quote.
GroupEnd(text, e) == IndexFrom(text, "\"", e)

GroupOK(text, e, scheme, mp4) ==
    LET RunOK(run) ==
            /\ MatchAt(run, 1, scheme)
            /\ IF mp4
               THEN \E m \in (Len(scheme) + 2)..Len(run) : MatchAt(run, m, ".mp4")
               ELSE Len(run) >= Len(scheme) + 1
        Upto(q) == q > 0 /\ RunOK(SubSeq(text, e, q - 1))
    IN  Upto(GroupEnd(text, e))

\* the literals of a pattern compiled with (?i), in lower case
RECURSIVE FoldElems(_)
FoldElems(elems) ==
    IF elems = <<>> THEN <<>>
    ELSE <<IF Head(elems).k = "lit" THEN Lit(ToLower(Head(elems).s)) ELSE Head(elems)>>
         \o FoldElems(Tail(elems))

VideoPattern(elems, scheme, mp4) == [elems |-> elems, scheme |-> scheme, mp4 |-> mp4]

\* re.FindStringSubmatch(html) for one video pattern: the leftmost start,
\* the greedy choice among the ends, and the group taken from html itself.
\* fold is the (?i) flag: letters are compared without regard to case.
FindSubmatch(html, pat, fold) ==
    LET Scan(text, elems) ==
            LET Ends(i)     == {e \in PrefixEnds(text, i, elems, 1) :
                                   GroupOK(text, e, pat.scheme, pat.mp4)}
                Group(e)    == [found |-> TRUE,
                                group |-> SubSeq(html, e, GroupEnd(text, e) - 1)]
                From(first) == IF first = 0 THEN [found |-> FALSE, group |-> ""]
                               ELSE Group(Greatest(Ends(first)))
            IN  From(Least({i \in 1..Len(text) :
                               MatchAt(text, i, elems[1].s) /\ Ends(i) # {}}))
    IN  Scan(IF fold THEN ToLower(html) ELSE html,
             IF fold THEN FoldElems(pat.elems) ELSE pat.elems)

directVideoUrlPatterns ==
    << VideoPattern(<<Lit("\"video_versions\":[{\"width\":"), Plus("digits"),
                      Lit(",\"height\":"), Plus("digits"), Lit(",\"url\":\"")>>,
                    "https://", FALSE),
       VideoPattern(<<Lit("\"video_url\":\"")>>, "https://", FALSE),
       VideoPattern(<<Lit("property=\"og:video\" content=\"")>>, "https://", FALSE),
       VideoPattern(<<Lit("property=\"og:video:secure_url\" content=\"")>>, "https://", FALSE),
       VideoPattern(<<Lit("\"contentUrl\":\"")>>, "https://", TRUE),
       VideoPattern(<<Lit("url\":\"")>>, "https://", TRUE),
       VideoPattern(<<Lit("url\":"), Star("space"), Lit("\"")>>, "", TRUE),
       VideoPattern(<<Lit("\"url\":"), Star("space"), Lit("\"")>>, "", TRUE) >>

fallbackVideoPatterns ==
    << VideoPattern(<<Lit("\"video_versions\":[{"), Star("notbrace"), Lit("\"url\":\"")>>,
                    "", FALSE),
       VideoPattern(<<Lit("\"url\":\"")>>, "https://", TRUE),
       VideoPattern(<<Lit("url\":\"")>>, "https://", TRUE),
       VideoPattern(<<Lit("\"url\":"), Star("space"), Lit("\"")>>, "", TRUE),
       VideoPattern(<<Lit("url:"), Star("space"), Lit("\"")>>, "", TRUE),
       VideoPattern(<<Lit("\"contentUrl\":\"")>>, "", TRUE) >>

\* the first pattern of a list that matches, in list order
RECURSIVE ScanPatterns(_, _, _, _)
ScanPatterns(html, pats, fold, k) ==
    IF k > Len(pats) THEN [found |-> FALSE, group |-> ""]
    ELSE LET Turn(m) == IF m.found THEN m ELSE ScanPatterns(html, pats, fold, k + 1)
         IN  Turn(FindSubmatch(html, pats[k], fold))

(***************************************************************************)
(* Client.unescapeURL                                                      *)
(***************************************************************************)

\* strings.ReplaceAll
RECURSIVE ReplaceAll(_, _, _)
ReplaceAll(s, old, new) ==
    LET Cut(i) == IF i = 0 THEN s
                  ELSE SubSeq(s, 1, i - 1) \o new
                       \o ReplaceAll(SubSeq(s, i + Len(old), Len(s)), old, new)
    IN  Cut(IndexFrom(s, old, 1))

\* the entries of the replacements map
replacements ==
    << [old |-> "\\u0025", new |-> "%"],
       [old |-> "\\u002F", new |-> "/"],
       [old |-> "\\u003A", new |-> ":"],
       [old |-> "\\u003F", new |-> "?"],
       [old |-> "\\u003D", new |-> "="],
       [old |-> "\\u0026", new |-> "&"],
       [old |-> "\\",      new |-> ""] >>

\* `for old, new := range replacements`: Go visits the entries of a map in
\* an unspecified order, so each step takes any entry not yet visited.
\* todo holds the pairs (result so far, entries left).
RECURSIVE RangeReplacements(_)
RangeReplacements(todo) ==
    IF \A p \in todo : p.left = {} THEN {p.result : p \in todo}
    ELSE RangeReplacements(
           UNION { { [result |-> ReplaceAll(p.result, replacements[r].old,
                                            replacements[r].new),
                      left   |-> p.left \ {r}] : r \in p.left } : p \in todo })

\* unescapeURL(urlStr): the set of strings the call can return
unescapeURL(urlStr) ==
    RangeReplacements({[result |-> urlStr, left |-> 1..Len(replacements)]})

\* a direct scan that ignores the case of the letters
extractDirectVideoURLFold(html) ==
    LET Unescaped(m) ==
            [found |-> m.found, urls |-> IF m.found THEN unescapeURL(m.group) ELSE {}]
    IN  Unescaped(ScanPatterns(html, directVideoUrlPatterns, TRUE, 1))

\* extractDirectVideoURL(html): found = FALSE is
\* fmt.Errorf("no direct video URL found"); otherwise urls holds the strings
\* unescapeURL can return for the matched group
extractDirectVideoURL(html) ==
    LET Unescaped(m) ==
            [found |-> m.found, urls |-> IF m.found THEN unescapeURL(m.group) ELSE {}]
    IN  Unescaped(ScanPatterns(html, directVideoUrlPatterns, FALSE, 1))

\* preloaderPattern: PolarisPostRootQueryRelayPreloader_[^"]+",( ... ) with
\* the group running from the opening brace of {"__bbox" to the last brace
preloaderHead == <<Lit("PolarisPostRootQueryRelayPreloader_"), Plus("notquote"), Lit("\",")>>
preloaderGroup ==
    <<Lit("{\"__bbox\":{\"complete\":true,\"result\":{\"data\":{\"xdt_api__v1__media__shortcode__web_info\":{\"items\":[{"),
      Plus("notbrace"), Lit("}]}}}}}")>>

PreloaderSubmatch(html) ==
    LET Groups(i)   == UNION { { <<g, e>> : e \in PrefixEnds(html, g, preloaderGroup, 1) } :
                                  g \in PrefixEnds(html, i, preloaderHead, 1) }
        Group(ge)   == [found |-> TRUE, group |-> SubSeq(html, ge[1], ge[2] - 1)]
        From(first) == IF first = 0 THEN [found |-> FALSE, group |-> ""]
                       ELSE Group(CHOOSE x \in Groups(first) : TRUE)
    IN  From(Least({i \in 1..Len(html) :
                       /\ MatchAt(html, i, preloaderHead[1].s)
                       /\ Groups(i) # {}}))

\* a[0] of a value asserted to be a non-empty []interface{}, nil otherwise
First(x) == IF IsArr(x) /\ Len(x.v) > 0 THEN x.v[1] ELSE Nil

\* the walk __bbox.result.data.xdt_api__v1__media__shortcode__web_info
\* .items[0].video_versions[0].url over the decoded preloader payload
PreloaderURL(data) ==
    LET bbox    == Get(data, "__bbox")
        result  == Get(bbox, "result")
        d       == Get(result, "data")
        apiData == Get(d, "xdt_api__v1__media__shortcode__web_info")
        media   == First(Get(apiData, "items"))
        version == First(Get(media, "video_versions"))
    IN  IF IsObj(bbox) /\ IsObj(result) /\ IsObj(d) /\ IsObj(apiData)
           /\ IsObj(media) /\ IsObj(version)
        THEN Get(version, "url")
        ELSE Nil

\* extractFallbackVideoURL(html, shortcode): stage is the scan that hit
\* ("pattern" or "preloader"); found = FALSE is
\* fmt.Errorf("no fallback video URL found")
extractFallbackVideoURL(html, shortcode) ==
    LET NotFound       == [found |-> FALSE, stage |-> "", urls |-> {}]
        FromURL(url)   == IF IsStr(url)
                          THEN [found |-> TRUE, stage |-> "preloader", urls |-> {url.v}]
                          ELSE NotFound
        FromData(un)   == IF un.ok THEN FromURL(PreloaderURL(un.data)) ELSE NotFound
        Preloader(pm)  == IF pm.found THEN FromData(Unmarshal(pm.group)) ELSE NotFound
        Patterns(m)    == IF m.found
                          THEN [found |-> TRUE, stage |-> "pattern",
                                urls |-> unescapeURL(m.group)]
                          ELSE Preloader(PreloaderSubmatch(html))
    IN  Patterns(ScanPatterns(html, fallbackVideoPatterns, TRUE, 1))

(***************************************************************************)
(* Client.findVideoURL and its helpers                                     *)
(***************************************************************************)

\* getShortcodeMedia(data): the shortcode_media object, or nil
getShortcodeMedia(data) ==
    IF IsObj(data) /\ IsObj(Get(data, "shortcode_media"))
    THEN Get(data, "shortcode_media")
    ELSE Nil

\* a variant that returns video_url without looking at is_video
extractVideoURLFromMediaAnyFlag(m) ==
    IF IsStr(Get(m, "video_url"))
    THEN Get(m, "video_url").v
    ELSE LET version == First(Get(m, "video_versions"))
         IN  IF IsObj(version) /\ IsStr(Get(version, "url"))
             THEN Get(version, "url").v
             ELSE ""

\* extractVideoURLFromMedia(media)
extractVideoURLFromMedia(m) ==
    IF IsTrue(Get(m, "is_video")) /\ IsStr(Get(m, "video_url"))
    THEN Get(m, "video_url").v
    ELSE LET version == First(Get(m, "video_versions"))
         IN  IF IsObj(version) /\ IsStr(Get(version, "url"))
             THEN Get(version, "url").v
             ELSE ""

Hit(url) == [kind |-> "hit",   url |-> url]
Miss     == [kind |-> "miss",  url |-> ""]
Panic    == [kind |-> "panic", url |-> ""]

\* the single-value assertion itemMap["1"].(map[string]interface{}) panics
\* when the value under "1" is not an object (a missing key included)
MustBeMap(x) == IsObj(x)

\* Structure 1: the loop over jsonData["require"] from entry k on
RECURSIVE PostPageFormat(_, _)
PostPageFormat(require, k) ==
    IF k > Len(require) THEN Miss
    ELSE LET itemMap        == require[k]
             graphql        == Get(Get(itemMap, "1"), "graphql")
             shortcodeMedia == Get(graphql, "shortcode_media")
         IN  IF IsObj(itemMap) /\ IsStr(Get(itemMap, "0"))
                /\ Get(itemMap, "0").v = "PostPage"
             THEN IF ~MustBeMap(Get(itemMap, "1")) THEN Panic
                  ELSE IF /\ IsObj(graphql)
                          /\ IsObj(shortcodeMedia)
                          /\ IsTrue(Get(shortcodeMedia, "is_video"))
                          /\ IsStr(Get(shortcodeMedia, "video_url"))
                  THEN Hit(Get(shortcodeMedia, "video_url").v)
                  ELSE PostPageFormat(require, k + 1)
             ELSE PostPageFormat(require, k + 1)

\* Structure 2: entry_data.PostPage[0].shortcode_media
SharedDataFormat(jsonData) ==
    LET postPage == Get(Get(jsonData, "entry_data"), "PostPage")
        media    == getShortcodeMedia(First(postPage))
    IN  IF IsObj(Get(jsonData, "entry_data")) /\ IsArr(postPage)
           /\ Len(postPage.v) > 0 /\ IsObj(media)
           /\ extractVideoURLFromMedia(media) # ""
        THEN Hit(extractVideoURLFromMedia(media))
        ELSE Miss

\* Structure 3: items[0]; the single-value assertion
\* items[0].(map[string]interface{}) panics when items[0] is not an object
DirectItemsFormat(jsonData) ==
    LET items == Get(jsonData, "items")
    IN  IF IsArr(items) /\ Len(items.v) > 0
        THEN IF ~MustBeMap(items.v[1]) THEN Panic
             ELSE IF extractVideoURLFromMedia(items.v[1]) # ""
             THEN Hit(extractVideoURLFromMedia(items.v[1]))
             ELSE Miss
        ELSE Miss

\* Structure 4: with ROOT_QUERY present, `for key, value := range jsonData`
\* visits the keys in an unspecified order and returns at the first key
\* naming the shortcode whose object has video_url, else videoUrl: any such
\* key can be the one that answers.
ApolloStateFormat(jsonData, shortcode) ==
    LET keys == {key \in DOMAIN jsonData.v :
                    \/ Contains(key, "Media:" \o shortcode)
                    \/ Contains(key, "ShortcodeMedia:" \o shortcode)}
        URLOf(media) == IF IsStr(Get(media, "video_url")) THEN Get(media, "video_url")
                        ELSE Get(media, "videoUrl")
        hits == {key \in keys : IsObj(jsonData.v[key]) /\ IsStr(URLOf(jsonData.v[key]))}
    IN  IF "ROOT_QUERY" \in DOMAIN jsonData.v /\ hits # {}
        THEN {Hit(URLOf(jsonData.v[key]).v) : key \in hits}
        ELSE {Miss}

\* Structure 5: graphql.shortcode_media
DirectAPIFormat(jsonData) ==
    LET graphql == Get(jsonData, "graphql")
        media   == getShortcodeMedia(graphql)
    IN  IF IsObj(graphql) /\ IsObj(media) /\ extractVideoURLFromMedia(media) # ""
        THEN Hit(extractVideoURLFromMedia(media))
        ELSE Miss

\* findVideoURL(jsonData, shortcode): the set of outcomes of the call, each
\* a hit with the URL returned, a miss (the empty string) or a panic
findVideoURL(jsonData, shortcode) ==
    LET Structure1(require) ==
            IF IsArr(require) THEN PostPageFormat(require.v, 1) ELSE Miss
        Try4(d)    == IF d # {Miss} THEN d ELSE {DirectAPIFormat(jsonData)}
        Try3(c)    == IF c.kind # "miss" THEN {c}
                      ELSE Try4(ApolloStateFormat(jsonData, shortcode))
        Try2(b)    == IF b.kind # "miss" THEN {b}
                      ELSE Try3(DirectItemsFormat(jsonData))
        Try1(a)    == IF a.kind # "miss" THEN {a}
                      ELSE Try2(SharedDataFormat(jsonData))
    IN  Try1(Structure1(Get(jsonData, "require")))

(***************************************************************************)
(* Client.extractMetadata and Client.parseMediaInfo                        *)
(***************************************************************************)

\* The loop of extractMetadata over jsonData["require"] from entry k on,
\* with the Username and Caption set so far.  The single-value assertion
\* itemMap["1"].(map[string]interface{}) is made for every entry that is an
\* object, whatever its "0".
RECURSIVE MetadataFrom(_, _, _, _)
MetadataFrom(require, k, username, caption) ==
    IF k > Len(require)
    THEN [panic |-> FALSE, Username |-> username, Caption |-> caption]
    ELSE LET itemMap        == require[k]
             graphql        == Get(Get(itemMap, "1"), "graphql")
             shortcodeMedia == Get(graphql, "shortcode_media")
             owner          == Get(shortcodeMedia, "owner")
             edges          == Get(Get(shortcodeMedia, "edge_media_to_caption"), "edges")
             node           == Get(First(edges), "node")
             found          == IsObj(graphql) /\ IsObj(shortcodeMedia)
         IN  IF ~IsObj(itemMap)
             THEN MetadataFrom(require, k + 1, username, caption)
             ELSE IF ~MustBeMap(Get(itemMap, "1"))
             THEN [panic |-> TRUE, Username |-> username, Caption |-> caption]
             ELSE MetadataFrom(require, k + 1,
                    IF found /\ IsObj(owner) /\ IsStr(Get(owner, "username"))
                    THEN Get(owner, "username").v ELSE username,
                    IF found /\ IsObj(First(edges)) /\ IsObj(node)
                       /\ IsStr(Get(node, "text"))
                    THEN Get(node, "text").v ELSE caption)

extractMetadata(jsonData) ==
    IF IsArr(Get(jsonData, "require"))
    THEN MetadataFrom(Get(jsonData, "require").v, 1, "", "")
    ELSE [panic |-> FALSE, Username |-> "", Caption |-> ""]

\* models.InstagramMediaInfo
MediaInfo(videoURL, fileName, username, caption) ==
    [VideoURL |-> videoURL, FileName |-> fileName,
     Username |-> username, Caption |-> caption]

NoInfo  == MediaInfo("", "", "", "")
NoError == Errorf("")

\* What a call (or a step of it) ends with: a value and nil, nil and an
\* error, or a panic raised at the named site.
Returned(info)  == [kind |-> "ok",    info |-> info,   err |-> NoError, site |-> ""]
Failed(err)     == [kind |-> "err",   info |-> NoInfo, err |-> err,     site |-> ""]
Panicked(site)  == [kind |-> "panic", info |-> NoInfo, err |-> NoError, site |-> site]
Pending         == [kind |-> "none",  info |-> NoInfo, err |-> NoError, site |-> ""]

\* fmt.Sprintf("%s.mp4", shortcode)
FileNameOf(shortcode) == shortcode \o ".mp4"

\* parseMediaInfo(jsonData, shortcode): the set of ways the call can end
parseMediaInfo(jsonData, shortcode) ==
    LET WithMetadata(videoURL, md) ==
            IF md.panic THEN Panicked("extractMetadata")
            ELSE Returned(MediaInfo(videoURL, FileNameOf(shortcode),
                                    md.Username, md.Caption))
    IN  { IF f.kind = "panic" THEN Panicked("findVideoURL")
          ELSE IF f.url = ""
          THEN Failed(Errorf("could not find video URL in Instagram response"))
          ELSE WithMetadata(f.url, extractMetadata(jsonData))
          : f \in findVideoURL(jsonData, shortcode) }

(***************************************************************************)
(* Client.isInstagram404Page                                               *)
(***************************************************************************)

indicators ==
    << "Sorry, this page isn't available",
       "The link you followed may be broken",
       "this post is unavailable",
       "content isn't available",
       "this content isn't available right now",
       "this account has been suspended",
       "this account may have been deactivated",
       "Page Not Found",
       "post not found",
       "video not found" >>

\* a page test that compares the page as served, without lowering it
isInstagram404PageCaseSensitive(html) ==
    \E k \in 1..Len(indicators) : Contains(html, ToLower(indicators[k]))

\* strings.ToLower(indicator) of each indicator
indicatorsLower ==
    << ToLower(indicators[1]), ToLower(indicators[2]), ToLower(indicators[3]),
       ToLower(indicators[4]), ToLower(indicators[5]), ToLower(indicators[6]),
       ToLower(indicators[7]), ToLower(indicators[8]), ToLower(indicators[9]),
       ToLower(indicators[10]) >>

\* isInstagram404Page(html): htmlLower := strings.ToLower(html), then one
\* strings.Contains(htmlLower, strings.ToLower(indicator)) per indicator
isInstagram404Page(html) ==
    LET htmlLower == ToLower(html)
    IN  \E k \in 1..Len(indicators) :
            Contains(htmlLower, indicatorsLower[k])

(***************************************************************************)
(* The upstream: what c.httpClient.Do(req) can answer                      *)
(***************************************************************************)

\* page bodies the upstream serves with a 2xx status
Bodies ==
    << \* empty body
       "",
       \* shorter than the direct-JSON landmark
       "{}",
       \* soft 404, phrase as listed
       "<html><h2>Sorry, this page isn't available.</h2></html>",
       \* soft 404, other letter case
       "<html><title>PAGE NOT FOUND</title></html>",
       \* soft 404 on a page that also carries a video
       "<html>Post Not Found<meta property=\"og:video\" content=\"https://cdn.example/x.mp4\"></html>",
       \* data-sjs block, shape A
       "<html><script type=\"application/json\" data-sjs>{\"require\":[{\"0\":\"PostPage\",\"1\":{\"graphql\":{\"shortcode_media\":{\"is_video\":true,\"video_url\":\"https://cdn.example/a.mp4\",\"owner\":{\"username\":\"alice\"},\"edge_media_to_caption\":{\"edges\":[{\"node\":{\"text\":\"hi\"}}]}}}}}]}</script></html>",
       \* data-sjs block, PostPage entry without "1"
       "<html><script type=\"application/json\" data-sjs>{\"require\":[{\"0\":\"PostPage\"}]}</script></html>",
       \* data-sjs block, PostPage entry whose "1" is a string
       "<html><script type=\"application/json\" data-sjs>{\"require\":[{\"0\":\"PostPage\",\"1\":\"x\"}]}</script></html>",
       \* data-sjs block, shape A that is not a video
       "<html><script type=\"application/json\" data-sjs>{\"require\":[{\"0\":\"PostPage\",\"1\":{\"graphql\":{\"shortcode_media\":{\"is_video\":false}}}}]}</script></html>",
       \* data-sjs block, shape A without owner
       "<html><script type=\"application/json\" data-sjs>{\"require\":[{\"0\":\"PostPage\",\"1\":{\"graphql\":{\"shortcode_media\":{\"is_video\":true,\"video_url\":\"https://cdn.example/a.mp4\"}}}}]}</script></html>",
       \* bare JSON, shape C
       "{\"items\":[{\"is_video\":true,\"video_url\":\"https://cdn.example/a.mp4\"}]}",
       \* bare JSON matching shapes B, C and E
       "{\"items\":[{\"video_versions\":[{\"url\":\"https://cdn.example/c.mp4\"}]}],\"entry_data\":{\"PostPage\":[{\"shortcode_media\":{\"video_versions\":[{\"url\":\"https://cdn.example/b.mp4\"}]}}]},\"graphql\":{\"shortcode_media\":{\"is_video\":true,\"video_url\":\"https://cdn.example/e.mp4\"}}}",
       \* data-sjs block, shape A with an empty video_url next to shape E
       "<html><script type=\"application/json\" data-sjs>{\"require\":[{\"0\":\"PostPage\",\"1\":{\"graphql\":{\"shortcode_media\":{\"is_video\":true,\"video_url\":\"\"}}}}],\"graphql\":{\"shortcode_media\":{\"is_video\":true,\"video_url\":\"https://cdn.example/e.mp4\"}}}</script></html>",
       \* bare JSON, shape C, the ampersand of the URL escaped twice
       "{\"items\":[{\"video_versions\":[{\"url\":\"https://cdn.example/s.mp4?a=1\\\\u0026b=2\"}]}]}",
       \* bare JSON, first item not an object
       "{\"items\":[\"x\"]}",
       \* data-sjs block, shape C next to a require entry without "1"
       "<html><script type=\"application/json\" data-sjs>{\"require\":[{\"0\":\"Other\"}],\"items\":[{\"video_versions\":[{\"url\":\"https://cdn.example/c.mp4\"}]}]}</script></html>",
       \* data-sjs block of no known shape, video_url in the text
       "<html><script type=\"application/json\" data-sjs>{\"data\":{\"video_url\":\"https://cdn.example/r.mp4\"}}</script></html>",
       \* data-sjs block of no known shape, no video
       "<html><script type=\"application/json\" data-sjs>{\"config\":{\"viewer\":null}}</script></html>",
       \* _sharedData block, shape B
       "<script type=\"text/javascript\">window._sharedData = {\"entry_data\":{\"PostPage\":[{\"shortcode_media\":{\"video_versions\":[{\"url\":\"https://cdn.example/b.mp4\"}]}}]}};</script>",
       \* __APOLLO_STATE__ block, shape D
       "<script>window.__APOLLO_STATE__ = {\"ROOT_QUERY\":{},\"Media:ABC123\":{\"video_url\":\"https://cdn.example/d1.mp4\",\"videoUrl\":\"https://cdn.example/d0.mp4\"},\"ShortcodeMedia:ABC123\":{\"videoUrl\":\"https://cdn.example/d2.mp4\"}};</script>",
       \* __additionalDataLoaded block, shape E
       "<script>window.__additionalDataLoaded('/p/ABC123/',{\"graphql\":{\"shortcode_media\":{\"is_video\":true,\"video_url\":\"https://cdn.example/e.mp4\"}}});</script>",
       \* bare JSON with the graphql landmark only
       "{\"graphql\":{\"shortcode_media\":{\"is_video\":true,\"video_url\":\"https://cdn.example/e.mp4\"}}}",
       \* malformed data-sjs block, no video
       "<html><script type=\"application/json\" data-sjs>{bad</script></html>",
       \* malformed data-sjs block followed by a decodable __INITIAL_DATA__ block
       "<script type=\"application/json\" data-sjs>{bad</script><script>window.__INITIAL_DATA__ = {\"graphql\":{\"shortcode_media\":{\"is_video\":true,\"video_url\":\"https://cdn.example/e.mp4\"}}};</script>",
       \* no structured data, og:video meta tag
       "<html><meta property=\"og:video\" content=\"https://cdn.example/og.mp4\"></html>",
       \* no structured data, upper-case url key
       "<html>\"URL\":\"https://cdn.example/u.mp4\"</html>",
       \* no structured data, escaped url
       "<html>\"video_url\":\"https:\\u002F\\u002Fexample.com\\u002Fv.mp4\\u003Ftoken\\u003Dabc\\u0026x\\u003D1\"</html>",
       \* no structured data, a video_versions url that is one backslash
       "<html>\"video_versions\":[{\"url\":\"\\\"}]</html>",
       \* preloader payload with a flat item
       "<html>PolarisPostRootQueryRelayPreloader_1\",{\"__bbox\":{\"complete\":true,\"result\":{\"data\":{\"xdt_api__v1__media__shortcode__web_info\":{\"items\":[{\"id\":\"1\"}]}}}}}</html>",
       \* plain page without any video
       "<html><body>Instagram</body></html>" >>

\* status codes the upstream answers with
Statuses == {199, 200, 299, 300, 400, 404, 429, 499, 500, 503}

\* An answer of the transport: a transport-level error (DNS, connection
\* refused, timeout), or a response with a status, a body, whether
\* reading the body fails, and its Retry-After header ("" when absent).
TransportError ==
    [err |-> TRUE, status |-> 0, body |-> "", readErr |-> FALSE, retryAfter |-> ""]
Response(status, body, readErr) ==
    [err |-> FALSE, status |-> status, body |-> body, readErr |-> readErr,
     retryAfter |-> ""]

\* the answer of a rate-limiting upstream that says when to come back
RateLimitedResponse ==
    [err |-> FALSE, status |-> 429, body |-> "", readErr |-> FALSE,
     retryAfter |-> "120"]

\* a success test that accepts status 200 only
IsSuccessOnly200(status) == status = 200

\* resp.StatusCode >= 200 && resp.StatusCode < 300
IsSuccess(status) == status >= 200 /\ status < 300

\* every status without a body, 200 with every body, the other 2xx
\* statuses with the empty body, the og:video page and the plain page, and
\* a 200 whose body cannot be read
Answers ==
    {TransportError}
    \cup {Response(st, "", FALSE) : st \in Statuses}
    \cup {Response(200, Bodies[b], FALSE) : b \in 1..Len(Bodies)}
    \cup {Response(st, Bodies[b], FALSE) :
             st \in {x \in Statuses : x >= 200 /\ x < 300},
             b \in {x \in 1..Len(Bodies) :
                       \/ x \in {1, Len(Bodies)}
                       \/ Contains(Bodies[x], "cdn.example/og.mp4")}}
    \cup {Response(200, Bodies[Len(Bodies)], TRUE)}
    \cup {RateLimitedResponse}

\* the mirrored URLs handed to GetMediaInfo
URLs ==
    { "https://www.instagram.com/reel/ABC123/",
      "https://www.instagram.com/p/ABC123",
      "https://www.instagram.com/tv/ABC123",
      "https://www.instagram.com/reel//",
      "https://example.com/reel/ABC123/",
      "https://www.instagram.com/ABC123/",
      "https://www.instagram.com/stories/ABC123/",
      "https://www.instagram.com/reel/%zz/" }

(***************************************************************************)
(* Client.GetMediaInfo                                                     *)
(***************************************************************************)

DefaultUserAgent == "Mozilla/5.0 (Windows NT 10.0; Win64; x64) AppleWebKit/537.36 (KHTML, like Gecko) Chrome/120.0.0.0 Safari/537.36"
MobileUserAgent  == "Mozilla/5.0 (iPhone; CPU iPhone OS 16_0 like Mac OS X) AppleWebKit/605.1.15 (KHTML, like Gecko) Version/16.0 Mobile/15E148 Safari/604.1"

\* a candidate list that asks for the reel page before the post page
urlFormatsReelFirst(sc) ==
    << [url |-> "https://www.instagram.com/reel/" \o sc \o "/",
        userAgent |-> DefaultUserAgent],
       [url |-> "https://www.instagram.com/p/" \o sc \o "/",
        userAgent |-> DefaultUserAgent],
       [url |-> "https://www.instagram.com/p/" \o sc \o "/",
        userAgent |-> MobileUserAgent],
       [url |-> "https://www.instagram.com/reel/" \o sc \o "/?__a=1&__d=dis",
        userAgent |-> MobileUserAgent] >>

\* the candidate list built for a shortcode
urlFormats(sc) ==
    << [url |-> "https://www.instagram.com/p/" \o sc \o "/",
        userAgent |-> DefaultUserAgent],
       [url |-> "https://www.instagram.com/reel/" \o sc \o "/",
        userAgent |-> DefaultUserAgent],
       [url |-> "https://www.instagram.com/p/" \o sc \o "/",
        userAgent |-> MobileUserAgent],
       [url |-> "https://www.instagram.com/reel/" \o sc \o "/?__a=1&__d=dis",
        userAgent |-> MobileUserAgent] >>

VARIABLES
    pc,            \* where the call stands: "idle", "fetch", "json", "parse",
                   \* "direct", "fallback" or "done"
    instagramURL,  \* the argument of the call
    shortcode,     \* the identifier parsed from it
    attempt,       \* index into urlFormats of the next candidate
    requests,      \* the requests handed to httpClient.Do, in order
    answers,       \* what the transport answered to each of them
    body,          \* the page body of the successful response
    jsonData,      \* the object extractJSONData decoded
    steps,         \* the extraction steps run on body, in order
    result,        \* what the call ended with
    templatesEnabled,  \* Server.templatesEnabled, set by NewServer
    path,          \* r.URL.Path of the request being served, "" when none
    accept,        \* its Accept header
    handler,       \* the handler the mux dispatched it to, "" when none
    written,       \* the status codes written to its ResponseWriter, in order
    cancelled,     \* r.Context() is done: the client of the request has gone
    rangeHeader,   \* the Range header of the request, "" when it has none
    chain,         \* the middlewares the request passes through, the
                   \* outermost first, and the handler at the end
    cdnRequests,   \* the video requests handed to the HTTP client, in order
    respHeaders,   \* the headers handleReel had set on the response when
                   \* the first status was written
    debug,         \* config.Debug of the client
    disk,          \* the files and directories the client has created
    other,         \* the locals of a second call on the same client, at
                   \* rest while the goroutine of the first one runs
    media,         \* the media object handed to extractVideoURLFromMedia
    returnedURL,   \* what it returned, <<>> before the call
    srv            \* Server.Start: where it stands, s.httpServer, the
                   \* listener, the context, the open connections and
                   \* what Start and Stop returned

\* the state of the client during one call
clientVars == <<pc, instagramURL, shortcode, attempt, requests, answers,
                body, jsonData, steps, result>>

\* the state of the server in front of it
srvVars == <<templatesEnabled, path, accept, handler, written, cancelled,
             rangeHeader, chain, cdnRequests, respHeaders>>

\* the configuration of the client and the file system it works on
envVars == <<debug, disk, other, media, returnedURL, srv>>

vars == <<pc, instagramURL, shortcode, attempt, requests, answers,
          body, jsonData, steps, result,
          templatesEnabled, path, accept, handler, written, cancelled,
          rangeHeader, chain, cdnRequests, respHeaders, debug, disk, other,
          media, returnedURL, srv>>

\* no request is being served
NoRequest ==
    /\ path = ""
    /\ accept = ""
    /\ handler = ""
    /\ written = <<>>
    /\ cancelled = FALSE
    /\ rangeHeader = ""
    /\ chain = <<>>
    /\ cdnRequests = <<>>
    /\ respHeaders = {}

\* a Server made by NewServer whose Start has not been called: httpServer
\* is nil, no listener, the context not cancelled, no connection serving a
\* request (conns) and none idle
NotStarted ==
    [pc |-> "new", httpServer |-> FALSE, listener |-> "none", ctxDone |-> FALSE,
     conns |-> 0, idle |-> 0, ret |-> "", stopped |-> ""]

\* the locals of a call that has not started
IdleCall ==
    [pc |-> "idle", instagramURL |-> "", shortcode |-> "", attempt |-> 1,
     requests |-> <<>>, answers |-> <<>>, body |-> "", jsonData |-> Nil,
     steps |-> <<>>, result |-> Pending]

Init ==
    /\ pc = "idle"
    /\ instagramURL = ""
    /\ shortcode = ""
    /\ attempt = 1
    /\ requests = <<>>
    /\ answers = <<>>
    /\ body = ""
    /\ jsonData = Nil
    /\ steps = <<>>
    /\ result = Pending
    /\ templatesEnabled = FALSE
    /\ NoRequest
    /\ debug = FALSE
    /\ disk = {}
    /\ other = IdleCall
    /\ media = Nil
    /\ returnedURL = <<>>
    /\ srv = NotStarted

\* the call ends with r
Finish(r) == /\ pc' = "done"
             /\ result' = r

\* GetMediaInfo(u) is called: the shortcode is parsed; a failure is returned
\* as it is, otherwise the candidate loop starts
GetMediaInfo(u) ==
    /\ pc = "idle"
    /\ instagramURL' = u
    /\ attempt' = 1
    /\ requests' = <<>>
    /\ answers' = <<>>
    /\ body' = ""
    /\ jsonData' = Nil
    /\ steps' = <<>>
    /\ LET Parsed(r) == IF r.ok
                         THEN /\ shortcode' = r.shortcode
                              /\ pc' = "fetch"
                              /\ result' = Pending
                         ELSE /\ shortcode' = ""
                              /\ Finish(Failed(r.err))
       IN  Parsed(ExtractShortcode(u))

\* a stop test that lets the 4xx statuses through to the next candidate
IsHardStopOnly5xx(status) == status >= 500

\* a stop test that ends the loop on a redirect status as well
IsHardStopFrom300(status) == status >= 300

\* resp.StatusCode >= 400: the statuses that stop the loop
IsHardStop(status) == status >= 400

\* a classification without the branch for status 429
StatusErrorNo429(status) ==
    IF status = 404 THEN NewNotFoundError("Instagram content")
    ELSE IF status >= 500 THEN NewNetworkError("Instagram server error")
    ELSE NewNetworkError("Instagram client error")

\* the error returned for a status that stops the loop
StatusError(status) ==
    IF status = 404 THEN NewNotFoundError("Instagram content")
    ELSE IF status = 429 THEN NewRateLimitedError("")
    ELSE IF status >= 500 THEN NewNetworkError("Instagram server error")
    ELSE NewNetworkError("Instagram client error")

\* the error returned when the loop ends without a successful response
ExhaustedError(sc) ==
    NewNotFoundError("Instagram content with shortcode '" \o sc \o "'")

\* `continue`, or the end of the turn: the next candidate; after the last
\* one response == nil and the call fails
NextCandidate ==
    IF attempt < Len(urlFormats(shortcode))
    THEN /\ attempt' = attempt + 1
         /\ UNCHANGED <<pc, result>>
    ELSE /\ attempt' = attempt + 1
         /\ Finish(Failed(ExhaustedError(shortcode)))

\* a saveDebugContent that does not look at the Debug flag
saveDebugContentAlways(sc) ==
    { disk,
      disk \cup {"debug"},
      disk \cup {"debug", "debug/debug-" \o sc \o ".html"} }

\* saveDebugContent(shortcode, content): the file systems the call can leave
\* behind. Without the Debug flag nothing is touched; with it, MkdirAll can
\* fail, the directory can be made and WriteFile fail, or the page is
\* written (the time stamp in the file name is left out).
saveDebugContent(sc) ==
    IF ~debug THEN {disk}
    ELSE { disk,
           disk \cup {"debug"},
           disk \cup {"debug", "debug/debug-" \o sc \o ".html"} }

\* One turn of the loop over urlFormats: the request for the candidate is
\* built and sent, and the transport answers a.
Attempt(a) ==
    /\ pc = "fetch"
    /\ attempt <= Len(urlFormats(shortcode))
    /\ UNCHANGED <<instagramURL, shortcode, jsonData, steps>>
    /\ UNCHANGED <<srvVars, debug, other, media, returnedURL, srv>>
    /\ IF URLParseFails(urlFormats(shortcode)[attempt].url)
       THEN \* http.NewRequest fails: continue without a request
            /\ NextCandidate
            /\ UNCHANGED <<requests, answers, body, disk>>
       ELSE /\ requests' = Append(requests, urlFormats(shortcode)[attempt])
            /\ answers' = Append(answers, a)
            /\ IF a.err
               THEN /\ NextCandidate
                    /\ UNCHANGED <<body, disk>>
               ELSE IF IsSuccess(a.status)
               THEN IF a.readErr
                    THEN /\ Finish(Failed(Errorf("failed to read response body: unexpected EOF")))
                         /\ UNCHANGED <<attempt, body, disk>>
                    ELSE IF isInstagram404Page(a.body)
                    THEN /\ Finish(Failed(ExhaustedError(shortcode)))
                         /\ UNCHANGED <<attempt, body, disk>>
                    ELSE /\ body' = a.body
                         /\ pc' = "json"
                         /\ disk' \in saveDebugContent(shortcode)
                         /\ UNCHANGED <<attempt, result>>
               ELSE IF IsHardStop(a.status)
               THEN /\ Finish(Failed(StatusError(a.status)))
                    /\ UNCHANGED <<attempt, body, disk>>
               ELSE /\ NextCandidate
                    /\ UNCHANGED <<body, disk>>

\* jsonData, err := c.extractJSONData(string(body))
ExtractJSON ==
    /\ pc = "json"
    /\ steps' = Append(steps, "extractJSONData")
    /\ UNCHANGED <<instagramURL, shortcode, attempt, requests, answers, body>>
    /\ UNCHANGED <<srvVars, envVars>>
    /\ LET Extracted(r) ==
               CASE r.kind = "data"  -> /\ jsonData' = r.data
                                        /\ pc' = "parse"
                                        /\ UNCHANGED result
                 [] r.kind = "err"   -> /\ pc' = "direct"
                                        /\ UNCHANGED <<jsonData, result>>
                 [] r.kind = "panic" -> /\ Finish(Panicked("extractJSONData"))
                                        /\ UNCHANGED jsonData
       IN  Extracted(extractJSONData(body))

\* mediaInfo, err := c.parseMediaInfo(jsonData, shortcode), returned as it is
ParseMediaInfo ==
    /\ pc = "parse"
    /\ steps' = Append(steps, "parseMediaInfo")
    /\ UNCHANGED <<instagramURL, shortcode, attempt, requests, answers,
                   body, jsonData>>
    /\ UNCHANGED <<srvVars, envVars>>
    /\ \E r \in parseMediaInfo(jsonData, shortcode) : Finish(r)

\* videoURL, err := c.extractDirectVideoURL(string(body)) after the JSON
\* extraction failed
DirectScan ==
    /\ pc = "direct"
    /\ steps' = Append(steps, "extractDirectVideoURL")
    /\ UNCHANGED <<instagramURL, shortcode, attempt, requests, answers,
                   body, jsonData>>
    /\ UNCHANGED <<srvVars, envVars>>
    /\ LET Scanned(r) ==
               IF r.found
               THEN \E u \in r.urls :
                        Finish(Returned(MediaInfo(u, FileNameOf(shortcode), "", "")))
               ELSE /\ pc' = "fallback"
                    /\ UNCHANGED result
       IN  Scanned(extractDirectVideoURL(body))

\* videoURL, err = c.extractFallbackVideoURL(string(body), shortcode) after
\* the direct scan failed; its error is returned as it is
FallbackScan ==
    /\ pc = "fallback"
    /\ steps' = Append(steps, "extractFallbackVideoURL")
    /\ UNCHANGED <<instagramURL, shortcode, attempt, requests, answers,
                   body, jsonData>>
    /\ UNCHANGED <<srvVars, envVars>>
    /\ LET Scanned(r) ==
               IF r.found
               THEN \E u \in r.urls :
                        Finish(Returned(MediaInfo(u, FileNameOf(shortcode), "", "")))
               ELSE Finish(Failed(Errorf("no fallback video URL found")))
       IN  Scanned(extractFallbackVideoURL(body, shortcode))

\* the caller has taken the result; nothing of the call stays behind in
\* the client, which is ready for the next call
Return ==
    /\ pc = "done"
    /\ pc' = "idle"
    /\ instagramURL' = ""
    /\ shortcode' = ""
    /\ attempt' = 1
    /\ requests' = <<>>
    /\ answers' = <<>>
    /\ body' = ""
    /\ jsonData' = Nil
    /\ steps' = <<>>
    /\ result' = Pending

\* the library is called directly: no server is involved
Next ==
    \/ \E u \in URLs : GetMediaInfo(u) /\ UNCHANGED <<srvVars, envVars>>
    \/ \E a \in Answers : Attempt(a)
    \/ ExtractJSON
    \/ ParseMediaInfo
    \/ DirectScan
    \/ FallbackScan
    \/ Return /\ UNCHANGED <<srvVars, envVars>>

Spec == Init /\ [][Next]_vars

\* The goroutine of the call is scheduled, so a step of the code that can
\* run does run; and httpClient.Do returns, with a response or with an
\* error, at the latest when http.Client.Timeout expires.
FairSpec ==
    /\ Init
    /\ [][Next]_vars
    /\ WF_vars(\E a \in Answers : Attempt(a))
    /\ WF_vars(ExtractJSON)
    /\ WF_vars(ParseMediaInfo)
    /\ WF_vars(DirectScan)
    /\ WF_vars(FallbackScan)

(***************************************************************************)
(* The HTTP server in front of the client                                  *)
(***************************************************************************)

\* AppError.HTTPStatusCode
HTTPStatusCode(type) ==
    CASE type \in {ErrorTypeInvalidURL, ErrorTypeNetwork,
                   ErrorTypeExtraction, ErrorTypeParsing} -> 400
      [] type = ErrorTypeNotFound       -> 404
      [] type = ErrorTypeUnsupported    -> 415
      [] type = ErrorTypeAuthentication -> 401
      [] type = ErrorTypeRateLimited    -> 429
      [] OTHER                          -> 500

\* strings.HasPrefix
HasPrefix(s, prefix) == Len(s) >= Len(prefix) /\ MatchAt(s, 1, prefix)

\* strings.TrimPrefix
TrimPrefix(s, prefix) ==
    IF HasPrefix(s, prefix) THEN SubSeq(s, Len(prefix) + 1, Len(s)) ELSE s

\* the Instagram URL handleReel builds from the request path
parseReelURL(requestPath) ==
    "https://www.instagram.com/" \o TrimPrefix(requestPath, "/")

\* the Accept header asks for JSON, or for nothing in particular
shouldReturnJSON(acc) ==
    \/ Contains(acc, "application/json")
    \/ Contains(acc, "*/*")
    \/ acc = ""

\* the status sendErrorResponse writes for err
sendErrorResponse(err) ==
    IF err.typed THEN HTTPStatusCode(err.type) ELSE 500

\* the status renderError writes: without templates the message goes to
\* sendErrorResponse as a new untyped error
renderError(enabled, statusCode) ==
    IF ~enabled THEN sendErrorResponse(Errorf("message: details"))
    ELSE statusCode

\* the status handleError writes for err
handleError(enabled, acc, err) ==
    IF shouldReturnJSON(acc) THEN sendErrorResponse(err)
    ELSE IF err.typed THEN renderError(enabled, HTTPStatusCode(err.type))
    ELSE renderError(enabled, 500)

\* the handler the mux of Router.SetupRoutes dispatches a request path to:
\* "/health" matches that path alone, "/static/", "/reel/" and "/" match by
\* prefix with the longest one winning, and the mux itself redirects a
\* subtree root asked for without its trailing slash
Route(p) ==
    IF p = "/health" THEN "handleHealthCheck"
    ELSE IF HasPrefix(p, "/static/") THEN "FileServer"
    ELSE IF HasPrefix(p, "/reel/") THEN "handleReel"
    ELSE IF p \in {"/static", "/reel"} THEN "RedirectHandler"
    ELSE "handleNotFound"

\* the statuses handleNotFound can write for a request path
handleNotFound(enabled, p) ==
    IF p = "/" THEN 200 ELSE renderError(enabled, 404)

\* the request paths served
Paths ==
    { "/", "/health", "/static/css/style.css", "/static", "/reel",
      "/reel/ABC123/", "/reel/", "/p/ABC123/", "/tv/ABC123/", "/favicon.ico" }

\* the Accept headers of the requests
Accepts == { "", "text/html", "application/json" }

\* the Range headers of the requests
Ranges == { "", "bytes=0-99" }

\* what the CDN answers to the video request: a transport error, or a
\* status, the Content-Length and Content-Range headers it carries ("" when
\* absent) and whether reading the body fails before its end
CDNAnswers ==
    { [err |-> TRUE, status |-> 0, readErr |-> FALSE,
       contentLength |-> "", contentRange |-> ""] }
    \cup { [err |-> FALSE, status |-> st, readErr |-> re,
            contentLength |-> cl, contentRange |-> cr] :
               st \in {200, 206, 403}, re \in BOOLEAN,
               cl \in {"", "100"}, cr \in {"", "bytes 0-99/1000"} }

\* the pages the upstream serves in the runs of the server: one of each
\* way a call can end
ServerAnswers ==
    { a \in Answers :
        \/ a.err
        \/ a.body = ""
        \/ \E page \in { "cdn.example/og.mp4", "\"username\":\"alice\"",
                         "PAGE NOT FOUND", "<body>Instagram</body>" } :
              Contains(a.body, page) }

\* middleware.DefaultConfig and middleware.MinimalConfig
DefaultConfig ==
    [EnableRecovery |-> TRUE, EnableLogging |-> TRUE, EnableCORS |-> TRUE]
MinimalConfig ==
    [EnableRecovery |-> FALSE, EnableLogging |-> FALSE, EnableCORS |-> FALSE]

\* result = middleware(result): the middleware is put around what is there
Wrap(enabled, middleware, inner) ==
    IF enabled THEN <<middleware>> \o inner ELSE inner

\* a stack that leaves the recovery middleware out
applyMiddlewareNoRecovery(h, config) ==
    Wrap(config.EnableCORS, "CORS", Wrap(config.EnableLogging, "Logging", <<h>>))

\* applyMiddleware(handler, config): the handler is wrapped by Recovery
\* first, then by Logging, then by CORS, each around the one before
applyMiddleware(h, config) ==
    Wrap(config.EnableCORS, "CORS",
         Wrap(config.EnableLogging, "Logging",
              Wrap(config.EnableRecovery, "Recovery", <<h>>)))

\* what Router.SetupRoutes registers for the handler a path is routed to
Registered(h) ==
    CASE h \in {"handleReel", "handleNotFound"} -> applyMiddleware(h, DefaultConfig)
      [] h = "handleHealthCheck" -> applyMiddleware(h, MinimalConfig)
      [] OTHER -> <<h>>

\* the Content-Type handleError sets for its answer
errorContentType(enabled, acc) ==
    IF shouldReturnJSON(acc) \/ ~enabled THEN "application/json"
    ELSE "text/html; charset=utf-8"

\* NewServer has run: the templates loaded or not, and nothing is served
ServerInit ==
    /\ pc = "idle"
    /\ instagramURL = ""
    /\ shortcode = ""
    /\ attempt = 1
    /\ requests = <<>>
    /\ answers = <<>>
    /\ body = ""
    /\ jsonData = Nil
    /\ steps = <<>>
    /\ result = Pending
    /\ templatesEnabled \in BOOLEAN
    /\ NoRequest
    /\ debug = FALSE
    /\ disk = {}
    /\ other = IdleCall
    /\ media = Nil
    /\ returnedURL = <<>>
    /\ srv = NotStarted

\* The mux dispatches a GET request. handleReel calls GetMediaInfo with the
\* URL built from the path; every other handler answers at once.
ServeHTTP(p, acc, rng) ==
    /\ pc = "idle"
    /\ handler = ""
    /\ path' = p
    /\ accept' = acc
    /\ rangeHeader' = rng
    /\ handler' = Route(p)
    /\ chain' = Registered(Route(p))
    /\ cancelled' = FALSE
    /\ cdnRequests' = <<>>
    /\ respHeaders' = {}
    /\ UNCHANGED <<templatesEnabled, envVars>>
    /\ CASE Route(p) = "handleReel" ->
                /\ GetMediaInfo(parseReelURL(p))
                /\ written' = <<>>
         [] Route(p) = "handleNotFound" ->
                /\ written' = <<handleNotFound(templatesEnabled, p)>>
                /\ UNCHANGED clientVars
         [] Route(p) = "handleHealthCheck" ->
                /\ written' = <<200>>
                /\ UNCHANGED clientVars
         [] Route(p) = "RedirectHandler" ->
                /\ written' = <<301>>
                /\ UNCHANGED clientVars
         [] Route(p) = "FileServer" ->
                /\ \E st \in {200, 404} : written' = <<st>>
                /\ UNCHANGED clientVars

\* the client of the request goes away while handleReel is at work
Cancel ==
    /\ handler = "handleReel"
    /\ written = <<>>
    /\ ~cancelled
    /\ cancelled' = TRUE
    /\ UNCHANGED <<templatesEnabled, path, accept, handler, written,
                   rangeHeader, chain, cdnRequests, respHeaders>>
    /\ UNCHANGED <<clientVars, envVars>>

\* GetMediaInfo returned an error to handleReel: handleError answers
HandleError ==
    /\ handler = "handleReel"
    /\ pc = "done"
    /\ result.kind = "err"
    /\ written = <<>>
    /\ written' = <<handleError(templatesEnabled, accept, result.err)>>
    /\ respHeaders' = {<<"Content-Type", errorContentType(templatesEnabled, accept)>>}
    /\ UNCHANGED <<templatesEnabled, path, accept, handler, cancelled,
                   rangeHeader, chain, cdnRequests>>
    /\ UNCHANGED <<clientVars, envVars>>

\* GetMediaInfo panicked under handleReel: RecoveryMiddleware answers
Recover ==
    /\ handler = "handleReel"
    /\ \E k \in 1..Len(chain) : chain[k] = "Recovery"
    /\ pc = "done"
    /\ result.kind = "panic"
    /\ written = <<>>
    /\ written' = <<500>>
    /\ respHeaders' = {<<"Content-Type", "text/plain; charset=utf-8">>}
    /\ UNCHANGED <<templatesEnabled, path, accept, handler, cancelled,
                   rangeHeader, chain, cdnRequests>>
    /\ UNCHANGED <<clientVars, envVars>>

\* a video request that never carries a Range header
createVideoRequestNoRange(videoURL, rng) == [url |-> videoURL, range |-> ""]

\* createVideoRequest: the request for the video, with the Range header of
\* the original request when it has one
createVideoRequest(videoURL, rng) == [url |-> videoURL, range |-> rng]

\* validateResponse: the CDN answered and its status is in [200,300)
validateResponse(c) == ~c.err /\ c.status >= 200 /\ c.status < 300

\* setResponseHeaders: the headers of the video response
setResponseHeaders(c) ==
    {<<"Content-Type", "video/mp4">>, <<"Accept-Ranges", "bytes">>}
    \cup (IF c.contentLength # "" THEN {<<"Content-Length", c.contentLength>>} ELSE {})
    \cup (IF c.contentRange # "" THEN {<<"Content-Range", c.contentRange>>} ELSE {})

\* the statuses StreamVideo writes when the CDN answers c, followed by the
\* one handleError writes when StreamVideo returns an error
streamVideo(enabled, acc, videoURL, c) ==
    IF URLParseFails(videoURL) \/ ~validateResponse(c)
    THEN <<handleError(enabled, acc, Errorf("stream"))>>
    ELSE IF c.readErr
    THEN <<IF c.status = 206 THEN 206 ELSE 200,
           handleError(enabled, acc, Errorf("stream"))>>
    ELSE <<IF c.status = 206 THEN 206 ELSE 200>>

\* GetMediaInfo returned a result to handleReel: the video is streamed. The
\* request carries the context of the original request, so once that is
\* done the HTTP client answers with an error.
StreamVideo(c) ==
    /\ handler = "handleReel"
    /\ pc = "done"
    /\ result.kind = "ok"
    /\ written = <<>>
    /\ cancelled => c.err
    /\ cdnRequests' = IF URLParseFails(result.info.VideoURL) THEN <<>>
                      ELSE <<createVideoRequest(result.info.VideoURL, rangeHeader)>>
    /\ written' = streamVideo(templatesEnabled, accept, result.info.VideoURL, c)
    /\ respHeaders' =
          IF URLParseFails(result.info.VideoURL) \/ ~validateResponse(c)
          THEN {<<"Content-Type", errorContentType(templatesEnabled, accept)>>}
          ELSE setResponseHeaders(c)
    /\ UNCHANGED <<templatesEnabled, path, accept, handler, cancelled,
                   rangeHeader, chain>>
    /\ UNCHANGED <<clientVars, envVars>>

\* the handler has returned and the response is complete
Served ==
    /\ handler # ""
    /\ written # <<>>
    /\ path' = ""
    /\ accept' = ""
    /\ handler' = ""
    /\ written' = <<>>
    /\ cancelled' = FALSE
    /\ rangeHeader' = ""
    /\ chain' = <<>>
    /\ cdnRequests' = <<>>
    /\ respHeaders' = {}
    /\ UNCHANGED <<templatesEnabled, envVars>>
    /\ IF pc = "done" THEN Return ELSE UNCHANGED clientVars

ServerNext ==
    \/ \E p \in Paths, acc \in Accepts, rng \in Ranges : ServeHTTP(p, acc, rng)
    \/ Cancel
    \/ \E a \in ServerAnswers : Attempt(a)
    \/ ExtractJSON
    \/ ParseMediaInfo
    \/ DirectScan
    \/ FallbackScan
    \/ HandleError
    \/ Recover
    \/ \E c \in CDNAnswers : StreamVideo(c)
    \/ Served

ServerSpec == ServerInit /\ [][ServerNext]_vars

(***************************************************************************)
(* The extraction from a fetched page                                      *)
(***************************************************************************)

\* the upstream serves every page with status 200, or does not answer
PageAnswers == { a \in Answers : a.err \/ (a.status = 200 /\ ~a.readErr) }

\* calls for one reel, each ending in the extraction from the page served
PageNext ==
    \/ GetMediaInfo("https://www.instagram.com/reel/ABC123/")
          /\ UNCHANGED <<srvVars, envVars>>
    \/ \E a \in PageAnswers : Attempt(a)
    \/ ExtractJSON
    \/ ParseMediaInfo
    \/ DirectScan
    \/ FallbackScan
    \/ Return /\ UNCHANGED <<srvVars, envVars>>

PageSpec == Init /\ [][PageNext]_vars

(***************************************************************************)
(* Two calls on one Client                                                 *)
(***************************************************************************)

\* the URLs and the answers of the runs with two calls
ConcURLs ==
    { "https://www.instagram.com/reel/ABC123/", "https://example.com/reel/ABC123/" }

ConcAnswers ==
    { a \in Answers :
        \/ a.err
        \/ a.status = 404 /\ a.body = ""
        \/ /\ a.status = 200
           /\ ~a.readErr
           /\ \E page \in { "cdn.example/og.mp4", "\"username\":\"alice\"",
                            "<body>Instagram</body>" } :
                 Contains(a.body, page) }

\* a scheduler that swaps the goroutines but leaves the page body where it
\* is, as if the two calls read it into one buffer of the client
SwitchSharedBody ==
    /\ other' = [pc |-> pc, instagramURL |-> instagramURL,
                 shortcode |-> shortcode, attempt |-> attempt,
                 requests |-> requests, answers |-> answers,
                 body |-> other.body, jsonData |-> jsonData,
                 steps |-> steps, result |-> result]
    /\ pc' = other.pc
    /\ instagramURL' = other.instagramURL
    /\ shortcode' = other.shortcode
    /\ attempt' = other.attempt
    /\ requests' = other.requests
    /\ answers' = other.answers
    /\ body' = body
    /\ jsonData' = other.jsonData
    /\ steps' = other.steps
    /\ result' = other.result
    /\ UNCHANGED <<srvVars, debug, disk, media, returnedURL, srv>>

\* The scheduler runs the goroutine of the other call. Everything a call
\* works on is a local of GetMediaInfo, so all of it goes with the call;
\* the fields of the Client (httpClient, config, logger) are only read.
Switch ==
    /\ other' = [pc |-> pc, instagramURL |-> instagramURL,
                 shortcode |-> shortcode, attempt |-> attempt,
                 requests |-> requests, answers |-> answers,
                 body |-> body, jsonData |-> jsonData,
                 steps |-> steps, result |-> result]
    /\ pc' = other.pc
    /\ instagramURL' = other.instagramURL
    /\ shortcode' = other.shortcode
    /\ attempt' = other.attempt
    /\ requests' = other.requests
    /\ answers' = other.answers
    /\ body' = other.body
    /\ jsonData' = other.jsonData
    /\ steps' = other.steps
    /\ result' = other.result
    /\ UNCHANGED <<srvVars, debug, disk, media, returnedURL, srv>>

\* NewClient has run with either value of config.Debug; no call is running
ConcInit ==
    /\ pc = "idle"
    /\ instagramURL = ""
    /\ shortcode = ""
    /\ attempt = 1
    /\ requests = <<>>
    /\ answers = <<>>
    /\ body = ""
    /\ jsonData = Nil
    /\ steps = <<>>
    /\ result = Pending
    /\ templatesEnabled = FALSE
    /\ NoRequest
    /\ debug \in BOOLEAN
    /\ disk = {}
    /\ other = IdleCall
    /\ media = Nil
    /\ returnedURL = <<>>
    /\ srv = NotStarted

\* two goroutines call GetMediaInfo on one Client
ConcNext ==
    \/ \E u \in ConcURLs : GetMediaInfo(u) /\ UNCHANGED <<srvVars, envVars>>
    \/ \E a \in ConcAnswers : Attempt(a)
    \/ ExtractJSON
    \/ ParseMediaInfo
    \/ DirectScan
    \/ FallbackScan
    \/ Return /\ UNCHANGED <<srvVars, envVars>>
    \/ Switch

ConcSpec == ConcInit /\ [][ConcNext]_vars

(***************************************************************************)
(* Server.Start and Server.Stop                                            *)
(***************************************************************************)

\* the connections the listener has open at a time
MaxConns == 4

\* httpServer.Shutdown(ctx) on the server s: what it returns and what it
\* leaves. The listener is closed, also for a ListenAndServe that has not
\* run yet (it returns ErrServerClosed), and a failed one stays failed.
\* Idle connections are closed. Without a connection serving a request
\* Shutdown returns nil; with some, it returns nil when they have ended, or
\* the error of ctx when its deadline passes first.
Shutdown(s) ==
    LET closed == IF s.listener = "failed" THEN "failed" ELSE "closed"
        ended == [err |-> "nil", conns |-> 0, listener |-> closed]
        forced == [err |-> "deadline", conns |-> s.conns, listener |-> closed]
    IN  IF s.conns = 0 THEN {ended} ELSE {ended, forced}

\* a Start whose goroutine hands a listen error back to the caller
ListenAndServeFatal ==
    /\ srv.httpServer
    /\ srv.listener = "none"
    /\ \/ srv' = [srv EXCEPT !.listener = "listening"]
       \/ srv' = [srv EXCEPT !.listener = "failed", !.pc = "returned", !.ret = "listen"]
    /\ UNCHANGED <<clientVars, srvVars, debug, disk, other, media, returnedURL>>

\* Start(ctx) up to `<-ctx.Done()`: the http.Server is made and the
\* goroutine for ListenAndServe launched
Start ==
    /\ srv.pc = "new"
    /\ srv' = [srv EXCEPT !.pc = "blocked", !.httpServer = TRUE]
    /\ UNCHANGED <<clientVars, srvVars, debug, disk, other, media, returnedURL>>

\* the goroutine runs s.httpServer.ListenAndServe(): the port is bound, or
\* it is not (in use) and the error is logged
ListenAndServe ==
    /\ srv.httpServer
    /\ srv.listener = "none"
    /\ \E l \in {"listening", "failed"} : srv' = [srv EXCEPT !.listener = l]
    /\ UNCHANGED <<clientVars, srvVars, debug, disk, other, media, returnedURL>>

\* the connections of the http.Server: a client connects, an idle
\* connection sends a request or is closed, a request is answered (the
\* connection is kept only while the server listens)
Connection ==
    /\ \/ /\ srv.listener = "listening"
          /\ srv.conns + srv.idle < MaxConns
          /\ srv' = [srv EXCEPT !.idle = @ + 1]
       \/ /\ srv.idle > 0
          /\ srv' = [srv EXCEPT !.idle = @ - 1, !.conns = @ + 1]
       \/ /\ srv.idle > 0
          /\ srv' = [srv EXCEPT !.idle = @ - 1]
       \/ /\ srv.conns > 0
          /\ srv' = [srv EXCEPT !.conns = @ - 1,
                                !.idle = IF srv.listener = "listening" THEN @ + 1 ELSE @]
    /\ UNCHANGED <<clientVars, srvVars, debug, disk, other, media, returnedURL>>

\* SIGINT or SIGTERM: the context of Start is cancelled
Signal ==
    /\ ~srv.ctxDone
    /\ srv' = [srv EXCEPT !.ctxDone = TRUE]
    /\ UNCHANGED <<clientVars, srvVars, debug, disk, other, media, returnedURL>>

\* `<-ctx.Done()` has passed and "Shutting down server..." is logged; then
\* return s.gracefulShutdown(), which is what Shutdown returned
gracefulShutdown ==
    /\ \/ /\ srv.pc = "blocked"
          /\ srv.ctxDone
          /\ srv' = [srv EXCEPT !.pc = "shutdown"]
       \/ /\ srv.pc = "shutdown"
          /\ \E r \in Shutdown(srv) :
                srv' = [srv EXCEPT !.pc = "returned", !.ret = r.err, !.idle = 0,
                                   !.conns = r.conns, !.listener = r.listener]
    /\ UNCHANGED <<clientVars, srvVars, debug, disk, other, media, returnedURL>>

\* Stop(ctx): nil when httpServer is nil, else httpServer.Shutdown(ctx)
Stop ==
    /\ srv.stopped = ""
    /\ IF ~srv.httpServer
       THEN srv' = [srv EXCEPT !.stopped = "nil"]
       ELSE \E r \in Shutdown(srv) :
               srv' = [srv EXCEPT !.stopped = r.err, !.idle = 0,
                                  !.conns = r.conns, !.listener = r.listener]
    /\ UNCHANGED <<clientVars, srvVars, debug, disk, other, media, returnedURL>>

\* main: the server is made, started and signalled; the goroutine of Start
\* is scheduled and Shutdown returns at the latest with its deadline
StartSpec ==
    /\ Init
    /\ [][Start \/ ListenAndServe \/ Connection \/ Signal \/ gracefulShutdown \/ Stop]_vars
    /\ WF_vars(gracefulShutdown)

(***************************************************************************)
(* Client.extractVideoURLFromMedia on its own                              *)
(***************************************************************************)

\* the values found under is_video, video_url and video_versions in the
\* media objects, Nil standing for a key that is absent
VideoVersionsValues ==
    { Nil,
      JArr(<<>>),
      JArr(<<JObj("url" :> JStr("https://cdn.example/vv.mp4"))>>),
      JArr(<<JObj("url" :> JStr("https://cdn.example/vv.mp4")),
             JObj("url" :> JStr("https://cdn.example/second.mp4"))>>),
      JArr(<<JObj("url" :> JNum(1))>>),
      JArr(<<JObj("type" :> JNum(101))>>),
      JArr(<<JStr("https://cdn.example/vv.mp4")>>),
      JObj("url" :> JStr("https://cdn.example/vv.mp4")) }

\* the media object with these values under its three keys
MediaOf(isVideo, url, versions) ==
    LET fields == [is_video |-> isVideo, video_url |-> url, video_versions |-> versions]
    IN  JObj([k \in {key \in DOMAIN fields : fields[key] # Nil} |-> fields[k]])

\* a media object has been decoded
MediaInit ==
    /\ pc = "idle"
    /\ instagramURL = ""
    /\ shortcode = ""
    /\ attempt = 1
    /\ requests = <<>>
    /\ answers = <<>>
    /\ body = ""
    /\ jsonData = Nil
    /\ steps = <<>>
    /\ result = Pending
    /\ templatesEnabled = FALSE
    /\ NoRequest
    /\ debug = FALSE
    /\ disk = {}
    /\ other = IdleCall
    /\ \E isVideo \in { Nil, JBool(TRUE), JBool(FALSE), JStr("true") },
          url \in { Nil, JStr("https://cdn.example/v.mp4"), JStr(""), JNum(1) },
          versions \in VideoVersionsValues :
             media = MediaOf(isVideo, url, versions)
    /\ returnedURL = <<>>
    /\ srv = NotStarted

\* c.extractVideoURLFromMedia(media) is called and returns
ExtractVideoURLFromMedia ==
    /\ returnedURL = <<>>
    /\ returnedURL' = <<extractVideoURLFromMedia(media)>>
    /\ UNCHANGED <<clientVars, srvVars, debug, disk, other, media, srv>>

MediaSpec == MediaInit /\ [][ExtractVideoURLFromMedia]_vars

(***************************************************************************)
(* Properties of the fetch loop                                            *)
(***************************************************************************)

\* the n-th answer of the call is a response with a status in [200,300)
Answered2xx(n) == ~answers[n].err /\ answers[n].status \in 200..299

\* the n-th answer of the call is a response with a status >= 400
Answered4xx5xx(n) == ~answers[n].err /\ answers[n].status >= 400

\* the call has returned the typed error of the given kind
FailedWith(type) ==
    /\ pc = "done"
    /\ result.kind = "err"
    /\ result.err.typed
    /\ result.err.type = type

\* C1: once candidate N has answered with a status in [200,300), the
\* request for candidate N is the last one of the call: no request for a
\* later candidate is issued, and a 2xx on the first candidate leaves
\* exactly one transport call.
C1_NoRequestAfter2xx ==
    \A n \in 1..Len(answers) : Answered2xx(n) => Len(requests) = n

\* C1 witness: the second candidate answered 299 after the first one failed
\* at the transport, and the call has gone on to return a result.
C1_Witness ==
    /\ pc = "done"
    /\ result.kind = "ok"
    /\ Len(requests) = 2
    /\ answers[1].err
    /\ answers[2].status = 299

\* C2: at every position N of the candidate list, a status >= 400 (404,
\* 429 or any other) makes the call fail at once with no request after N;
\* on the first candidate that is exactly one transport call.
C2_HardStopEndsCall ==
    \A n \in 1..Len(answers) :
        Answered4xx5xx(n) =>
            /\ Len(requests) = n
            /\ pc = "done"
            /\ result.kind = "err"

\* C2 witness: the third candidate answered 429 after two soft failures.
C2_Witness ==
    /\ pc = "done"
    /\ result.kind = "err"
    /\ Len(requests) = 3
    /\ answers[3].status = 429

\* C2 witness for the first position: a 404 on the first candidate.
C2_WitnessFirst ==
    /\ pc = "done"
    /\ Len(requests) = 1
    /\ answers[1].status = 404

\* the page bodies that contain one of the 'content unavailable' phrases
\* when letter case is ignored
UnavailableBodies ==
    { Bodies[b] : b \in { x \in 1..Len(Bodies) :
          \E k \in 1..Len(indicators) :
              Contains(ToLower(Bodies[x]), ToLower(indicators[k])) } }

\* C10: a 2xx answer whose body holds one of the 'content unavailable'
\* phrases, in any letter case, ends the call with NotFound: no further
\* candidate is requested and no extraction step runs on the body.
C10_Soft404IsNotFound ==
    \A n \in 1..Len(answers) :
        (Answered2xx(n) /\ ~answers[n].readErr
            /\ answers[n].body \in UnavailableBodies) =>
            /\ FailedWith(ErrorTypeNotFound)
            /\ Len(requests) = n
            /\ steps = <<>>

\* C10 witness: a 200 page with the phrase in upper case, which also
\* happens on a page that carries a video URL.
C10_Witness ==
    /\ FailedWith(ErrorTypeNotFound)
    /\ Len(answers) >= 1
    /\ answers[Len(answers)].status = 200
    /\ Contains(answers[Len(answers)].body, "PAGE NOT FOUND")

C9_AllTransportErrors ==
    (/\ pc = "done"
     /\ Len(answers) = 4
     /\ \A n \in 1..4 : answers[n].err) =>
        /\ requests = urlFormats(shortcode)
        /\ FailedWith(ErrorTypeNetwork)

(***************************************************************************)
(* Properties of the extraction cascade and of the errors returned         *)
(***************************************************************************)

\* the extraction step named s has run on the page body
Ran(s) == \E k \in 1..Len(steps) : steps[k] = s

\* C3: when a structured-data block decoded and no shape gave a video URL,
\* an error is returned only after the raw-text scans have run on the body.
C3_RawFallbackAfterStructMiss ==
    (/\ pc = "done"
     /\ Ran("parseMediaInfo")
     /\ result.kind = "err") => Ran("extractDirectVideoURL")

\* C4: findVideoURL never panics, whatever object was decoded.
C4_FindVideoURLNeverPanics ==
    ~(result.kind = "panic" /\ result.site = "findVideoURL")

\* C5: every error GetMediaInfo returns is a typed error whose kind is one
\* of the closed taxonomy.
C5_EveryErrorTyped ==
    (pc = "done" /\ result.kind = "err") =>
        (result.err.typed /\ result.err.type \in ErrorType)

\* C6: when no structured data decoded and every raw-text scan missed, the
\* call fails with the Extraction kind and the error names the identifier.
C6_TotalMissIsExtraction ==
    (/\ pc = "done"
     /\ Ran("extractFallbackVideoURL")
     /\ result.kind # "ok") =>
        /\ FailedWith(ErrorTypeExtraction)
        /\ result.err.detail = shortcode

\* inputs that name no content: another domain, fewer than three path
\* segments, a type marker other than p, reel and tv
MalformedURLs ==
    { "https://example.com/reel/ABC123/",
      "https://www.instagram.com/ABC123/",
      "https://www.instagram.com/stories/ABC123/" }

\* C7: for an input the identifier cannot be parsed from, the call fails
\* with the InvalidURL kind carrying the input, and nothing is requested.
C7_BadInputIsInvalidURL ==
    (pc = "done" /\ instagramURL \in MalformedURLs) =>
        /\ FailedWith(ErrorTypeInvalidURL)
        /\ result.err.detail = instagramURL
        /\ requests = <<>>

(***************************************************************************)
(* Properties of the HTTP boundary                                         *)
(***************************************************************************)

\* the status the boundary is said to answer for each error kind
C11_StatusOfKind(type) ==
    CASE type = ErrorTypeInvalidURL   -> 400
      [] type = ErrorTypeNotFound     -> 404
      [] type = ErrorTypeUnsupported  -> 415
      [] type = ErrorTypeRateLimited  -> 429
      [] type \in {ErrorTypeExtraction, ErrorTypeParsing, ErrorTypeNetwork} -> 502
      [] OTHER                        -> 500

\* C11: the boundary answers an error of GetMediaInfo with the status of
\* its kind: InvalidURL 400, NotFound 404, Unsupported 415, RateLimited 429,
\* Extraction, Parsing and Network 502, and 500 for anything else, untyped
\* errors included.
C11_BoundaryStatusByKind ==
    (handler = "handleReel" /\ result.kind = "err" /\ written # <<>>) =>
        written = << IF result.err.typed
                     THEN C11_StatusOfKind(result.err.type)
                     ELSE 500 >>

(***************************************************************************)
(* Properties of the URLs and identifiers returned                         *)
(***************************************************************************)

\* the escaped URL of the example, as it stands in a page, and its meaning
C12_Escaped   == "https:\\u002F\\u002Fexample.com\\u002Fv.mp4\\u003Ftoken\\u003Dabc\\u0026x\\u003D1"
C12_Unescaped == "https://example.com/v.mp4?token=abc&x=1"

\* C12: unescapeURL turns the escaped URL of the example into
\* https://example.com/v.mp4?token=abc&x=1 on every run: each listed \uXXXX
\* escape becomes its character and the remaining backslashes are removed,
\* whatever the order in which the replacement rules are applied.
C12_UnescapeExample ==
    (/\ pc = "done"
     /\ result.kind = "ok"
     /\ Ran("extractDirectVideoURL")
     /\ Contains(body, C12_Escaped)) =>
        result.info.VideoURL = C12_Unescaped

\* C13: metadata enrichment never crashes: once a shape has given a video
\* URL, extractMetadata returns normally whatever the decoded object holds
\* (a `require` entry with no object under "1", a shortcode_media without
\* owner), and the call succeeds with that URL.
C13_MetadataNeverFails ==
    result.kind = "panic" => result.site # "extractMetadata"

\* C14: extractJSONData ends with decoded data or with its 'no structured
\* data' failure for every page body, the empty body and bodies of fewer
\* than 9 characters after trimming included, and after the failure the
\* raw-text scans run.
C14_ShortBodyFallsBack ==
    (/\ pc = "done"
     /\ Ran("extractJSONData")
     /\ Len(TrimSpace(body)) < 9) =>
        /\ result.kind # "panic"
        /\ Ran("extractDirectVideoURL")

\* C15: an identifier ExtractShortcode returns is never empty, and it is
\* the path segment right after a p, reel or tv segment.
C15_ShortcodeNonEmpty ==
    pc = "fetch" =>
        /\ shortcode # ""
        /\ \E marker \in {"p", "reel", "tv"} :
              Contains(instagramURL, "/" \o marker \o "/" \o shortcode)

\* the same URL with its trailing slash removed, or added when it has none
C16_Twin(u) ==
    IF CharAt(u, Len(u)) = "/" THEN SubSeq(u, 1, Len(u) - 1) ELSE u \o "/"

\* C16: for a valid mirrored URL with marker p, reel or tv, ExtractShortcode
\* returns the same identifier with and without the trailing slash.
C16_TrailingSlashIrrelevant ==
    (pc = "fetch" /\ shortcode # "") =>
        LET Same(r) == r.ok /\ r.shortcode = shortcode
        IN  Same(ExtractShortcode(C16_Twin(instagramURL)))

\* C16 witness: identifiers were returned for a reel alias with the slash
\* and for a tv alias without it.
C16_Witness ==
    /\ pc = "fetch"
    /\ shortcode = "ABC123"
    /\ instagramURL = "https://www.instagram.com/tv/ABC123"

\* the escapes unescapeURL knows
C17_Escapes ==
    { "\\u0025", "\\u002F", "\\u003A", "\\u003F", "\\u003D", "\\u0026" }

\* C17: the VideoURL of a successful result holds none of the \uXXXX
\* escapes for % / : ? = & and no backslash, whether a structured shape, a
\* pattern scan or the preloader payload produced it.
C17_NoResidualEscape ==
    (pc = "done" /\ result.kind = "ok") =>
        /\ \A e \in C17_Escapes : ~Contains(result.info.VideoURL, e)
        /\ ~Contains(result.info.VideoURL, "\\")

\* the URLs a probe yields: none for a miss, a panic or an empty string
C18_Yield(o) == IF o.kind = "hit" /\ o.url # "" THEN {o.url} ELSE {}

\* the URLs each of the shapes A to E yields on the decoded object by itself
C18_Shapes ==
    << C18_Yield(IF IsArr(Get(jsonData, "require"))
                 THEN PostPageFormat(Get(jsonData, "require").v, 1) ELSE Miss),
       C18_Yield(SharedDataFormat(jsonData)),
       C18_Yield(DirectItemsFormat(jsonData)),
       UNION { C18_Yield(o) : o \in ApolloStateFormat(jsonData, shortcode) },
       C18_Yield(DirectAPIFormat(jsonData)) >>

\* the URLs of the earliest shape that yields one
C18_Earliest ==
    LET Of(S) == IF \A k \in 1..5 : S[k] = {} THEN {}
                 ELSE S[Least({k \in 1..5 : S[k] # {}})]
    IN  Of(C18_Shapes)

\* C18: when the decoded object matches one shape or several, findVideoURL
\* returns the URL of the earliest one in the order A, B, C, D, E; a shape
\* that yields no URL never keeps the later shapes from being probed, so the
\* lookup fails only when no shape yields a URL.
C18_EarliestShapeWins ==
    (pc = "done" /\ Ran("parseMediaInfo") /\ C18_Earliest # {}) =>
        /\ result.kind # "err"
        /\ ~(result.kind = "panic" /\ result.site = "findVideoURL")
        /\ result.kind = "ok" => result.info.VideoURL \in C18_Earliest

\* C19: on every successful result, whichever extraction path produced it,
\* FileName is the parsed identifier followed by ".mp4" and VideoURL is not
\* empty.
C19_FileNameAndURL ==
    (pc = "done" /\ result.kind = "ok") =>
        /\ result.info.FileName = shortcode \o ".mp4"
        /\ result.info.VideoURL # ""

\* C20: a request to /p/{id}/ or /tv/{id}/ is dispatched, like /reel/{id}/,
\* to the handler that resolves the mirrored URL
\* https://www.instagram.com/{type}/{id}/ and streams it, not to the
\* not-found handler.
C20_AllThreeShapesMirrored ==
    (handler # "" /\ (HasPrefix(path, "/p/") \/ HasPrefix(path, "/tv/")
                        \/ HasPrefix(path, "/reel/"))) =>
        /\ handler = "handleReel"
        /\ instagramURL = "https://www.instagram.com" \o path

(***************************************************************************)
(* Properties of the order of the requests, of cancellation and of the     *)
(* effects of a call                                                       *)
(***************************************************************************)

\* the page and the kind of browser of the n-th candidate, as listed
C21_Page   == <<"/p/", "/reel/", "/p/", "/reel/">>
C21_Query  == <<"", "", "", "?__a=1&__d=dis">>
C21_Mobile == <<FALSE, FALSE, TRUE, TRUE>>

\* C21: the candidates are requested in one fixed order (desktop /p/,
\* desktop /reel/, mobile /p/, mobile /reel/ with the API query parameters),
\* one at a time and each at most once: a call issues at most four page
\* requests, the n-th of them for the n-th candidate, and each is answered
\* before the next is issued.
C21_FixedOrderOnce ==
    /\ Len(requests) <= 4
    /\ Len(answers) = Len(requests)
    /\ \A n \in 1..Len(requests) :
          /\ requests[n].url = "https://www.instagram.com" \o C21_Page[n]
                                  \o shortcode \o "/" \o C21_Query[n]
          /\ requests[n].userAgent =
                IF C21_Mobile[n] THEN MobileUserAgent ELSE DefaultUserAgent

\* C21 witness: a call that went through all four candidates
C21_Witness ==
    /\ pc = "done"
    /\ Len(requests) = 4
    /\ answers[3].status = 300

----------------------------------------------------------------------------
\* C22: once the inbound request is cancelled while GetMediaInfo is
\* fetching page candidates, the request in flight is aborted (the only
\* answer that can still arrive is a transport error) and no further
\* candidate is issued (the call ends with it); a video request made after
\* the cancellation is aborted as well.
C22_CancelAborts ==
    [][cancelled =>
          /\ Len(requests') > Len(requests) =>
                /\ answers'[Len(answers')].err
                /\ pc' = "done"
          /\ Len(cdnRequests') > Len(cdnRequests) =>
                written' = <<handleError(templatesEnabled, accept, Errorf("stream"))>>
      ]_vars

----------------------------------------------------------------------------
\* what GetMediaInfo(u) returns when it runs alone and the transport
\* answers its requests with ans, in order: the loop over the candidates,
\* then the extraction from the body; empty when the call does not end
\* exactly with these answers
C23_Resolve(b, sc) ==
    LET FromScan(r, rest) ==
            IF r.found
            THEN { Returned(MediaInfo(u, FileNameOf(sc), "", "")) : u \in r.urls }
            ELSE rest
        j == extractJSONData(b)
    IN  CASE j.kind = "data"  -> parseMediaInfo(j.data, sc)
          [] j.kind = "panic" -> { Panicked("extractJSONData") }
          [] j.kind = "err"   ->
                FromScan(extractDirectVideoURL(b),
                         FromScan(extractFallbackVideoURL(b, sc),
                                  { Failed(Errorf("no fallback video URL found")) }))

RECURSIVE C23_Loop(_, _, _)
C23_Loop(sc, n, ans) ==
    IF n > Len(urlFormats(sc))
    THEN IF ans = <<>> THEN { Failed(ExhaustedError(sc)) } ELSE {}
    ELSE IF URLParseFails(urlFormats(sc)[n].url)
    THEN C23_Loop(sc, n + 1, ans)
    ELSE IF ans = <<>>
    THEN {}
    ELSE LET a == Head(ans)
             Last(r) == IF Len(ans) = 1 THEN r ELSE {}
         IN  IF a.err
             THEN C23_Loop(sc, n + 1, Tail(ans))
             ELSE IF IsSuccess(a.status)
             THEN Last(IF a.readErr
                       THEN { Failed(Errorf("failed to read response body: unexpected EOF")) }
                       ELSE IF isInstagram404Page(a.body)
                       THEN { Failed(ExhaustedError(sc)) }
                       ELSE C23_Resolve(a.body, sc))
             ELSE IF IsHardStop(a.status)
             THEN Last({ Failed(StatusError(a.status)) })
             ELSE C23_Loop(sc, n + 1, Tail(ans))

C23_RunAlone(u, ans) ==
    LET r == ExtractShortcode(u)
    IN  IF r.ok THEN C23_Loop(r.shortcode, 1, ans)
        ELSE IF ans = <<>> THEN { Failed(r.err) } ELSE {}

\* C23: two GetMediaInfo calls interleaved on one Client do not interfere:
\* no step writes a field of the Client (its configuration), and whenever
\* one of the calls has ended, its result is one the call returns when it
\* runs alone against the answers it received.
C23_NoInterference ==
    [][ /\ debug' = debug
        /\ pc' = "done" => result' \in C23_RunAlone(instagramURL', answers')
        /\ other'.pc = "done" =>
              other'.result \in C23_RunAlone(other'.instagramURL, other'.answers)
      ]_vars

\* one call has returned a video found in its page while the other one,
\* started on another URL, has a different page in hand and is not done
C23_Witness ==
    /\ pc = "done"
    /\ result.kind = "ok"
    /\ other.pc \in {"json", "parse", "direct", "fallback"}
    /\ other.body # body
    /\ Len(answers) >= 2
    /\ Len(other.answers) >= 2

----------------------------------------------------------------------------
\* C24: GetMediaInfo touches the disk only under the Debug flag: without
\* it no step creates a file or a directory; with it the only writes are
\* the debug directory and the page file, made when a page has been fetched;
\* and whether the write succeeds or fails, the call ends with a result it
\* has for the answers it received.
C24_DebugOnlyWrites ==
    [][ /\ ~debug => disk' = disk
        /\ disk' # disk =>
              /\ pc = "fetch" /\ pc' = "json"
              /\ disk \subseteq disk'
              /\ disk' \subseteq {"debug", "debug/debug-" \o shortcode \o ".html"}
        /\ debug /\ pc' = "done" =>
              result' \in C23_RunAlone(instagramURL', answers')
      ]_vars

\* with Debug set a call has fetched a page and returned its video although
\* the page file could not be written
C24_Witness ==
    /\ debug
    /\ pc = "done"
    /\ result.kind = "ok"
    /\ body # ""
    /\ disk = {"debug"}

----------------------------------------------------------------------------
\* C25: a request to a handler wrapped with the full middleware stack
\* (DefaultConfig) passes through Recovery first, then Logging, then CORS,
\* then the handler.
C25_RecoveryOutermost ==
    handler \in {"handleReel", "handleNotFound"} =>
        chain = <<"Recovery", "Logging", "CORS", handler>>

----------------------------------------------------------------------------
\* C26: a request to a path that is not /, /health, under /static/ or under
\* /reel/ is answered with status 404, whatever its Accept header and
\* whether or not the templates were loaded.
C26_UnknownPathIs404 ==
    /\ path # ""
    /\ path \notin {"/", "/health"}
    /\ ~HasPrefix(path, "/static/")
    /\ ~HasPrefix(path, "/reel/")
    => written = <<404>>

----------------------------------------------------------------------------
\* C27: when the video is streamed, the request to the CDN carries the
\* Range header of the client unchanged, and none when the client sent
\* none; the first status written is 206 if the CDN answered 206 and 200
\* otherwise; and Content-Length and Content-Range reach the client with
\* the values of the CDN exactly when the CDN supplied them.
C27_RangeAndHeadersMirrored ==
    [][ \A c \in CDNAnswers :
           StreamVideo(c) /\ validateResponse(c) /\ cdnRequests' # <<>> =>
              /\ Len(cdnRequests') = 1
              /\ cdnRequests'[1].url = result.info.VideoURL
              /\ cdnRequests'[1].range = rangeHeader
              /\ written'[1] = 206 <=> c.status = 206
              /\ written'[1] # 206 => written'[1] = 200
              /\ \A h \in {"Content-Length", "Content-Range"} :
                    LET sent == IF h = "Content-Length" THEN c.contentLength
                                                         ELSE c.contentRange
                    IN  IF sent = ""
                        THEN \A v \in {"", "100", "bytes 0-99/1000"} :
                                 <<h, v>> \notin respHeaders'
                        ELSE /\ <<h, sent>> \in respHeaders'
                             /\ \A hv \in respHeaders' : hv[1] = h => hv[2] = sent
      ]_vars

\* a request with a Range header has been answered 206 with the
\* Content-Range of the CDN
C27_Witness ==
    /\ rangeHeader = "bytes=0-99"
    /\ cdnRequests # <<>>
    /\ cdnRequests[1].range = "bytes=0-99"
    /\ written = <<206>>
    /\ <<"Content-Range", "bytes 0-99/1000">> \in respHeaders
    /\ <<"Content-Length", "100">> \in respHeaders

----------------------------------------------------------------------------
\* every call that has started comes to its end, whatever the answers
C28_EveryCallEnds == (pc # "idle") ~> (pc = "done")

\* C28: given that every outbound request is answered (a response or a
\* transport error), every GetMediaInfo call eventually returns, and what
\* it returns is a result or an error.
C28_EveryCallReturns ==
    /\ C28_EveryCallEnds
    /\ [](pc = "done" => result.kind \in {"ok", "err"})

----------------------------------------------------------------------------
\* C29: when the call ends on a candidate answered 429 with a Retry-After
\* header, the RateLimited error it returns carries the value of the
\* header in its retry_after detail.
C29_RetryAfterSurfaced ==
    /\ pc = "done"
    /\ answers # <<>>
    /\ ~answers[Len(answers)].err
    /\ answers[Len(answers)].status = 429
    /\ answers[Len(answers)].retryAfter # ""
    => /\ result.kind = "err"
       /\ result.err.type = ErrorTypeRateLimited
       /\ result.err.detail = answers[Len(answers)].retryAfter

----------------------------------------------------------------------------
\* C30: when GetMediaInfo returns a typed error to handleReel, the status
\* sent to the client is the one AppError.HTTPStatusCode gives for its
\* type, whatever the Accept header of the request and whether or not the
\* templates are enabled.
C30_StatusIgnoresFormat ==
    /\ handler = "handleReel"
    /\ pc = "done"
    /\ result.kind = "err"
    /\ result.err.typed
    /\ written # <<>>
    => written = <<HTTPStatusCode(result.err.type)>>

----------------------------------------------------------------------------
\* what pattern k of jsonPatterns has to offer on a page: its landmark is
\* present and the payload it marks decodes to an object (the captured
\* group, or the page itself for the two patterns without a group)
C31_Yield(html, k) ==
    LET pat == jsonPatterns[k]
        Of(found, un) == IF found /\ un.ok THEN [ok |-> TRUE, data |-> un.data]
                         ELSE [ok |-> FALSE, data |-> Nil]
        Grouped(m) == Of(m.found, Unmarshal(m.group))
    IN  CASE pat.kind = "group"   -> Grouped(Landmark(html, pat.open, pat.close))
          [] pat.kind = "loaded"  -> Grouped(AdditionalDataLandmark(html))
          [] pat.kind = "direct"  -> Of(HasPrefix(TrimSpace(html), pat.open), Unmarshal(html))
          [] pat.kind = "nogroup" -> Of(Contains(html, pat.open), Unmarshal(html))

\* C31: when extractJSONData has run on a page where some pattern of the
\* list has its landmark with a decodable payload, it has returned the data
\* of the first such pattern in list order; patterns before it that match
\* without decoding do not end the call.
C31_FirstDecodablePatternWins ==
    /\ steps # <<>>
    /\ \E k \in 1..Len(jsonPatterns) : C31_Yield(body, k).ok
    => LET first == CHOOSE k \in 1..Len(jsonPatterns) :
                       /\ C31_Yield(body, k).ok
                       /\ \A j \in 1..(k - 1) : ~C31_Yield(body, j).ok
       IN  jsonData = C31_Yield(body, first).data

----------------------------------------------------------------------------
\* C32: extractVideoURLFromMedia returns video_url when is_video is true
\* and video_url is a string; otherwise video_versions[0].url when that is
\* a string; otherwise the empty string. So is_video = true without a
\* video_url falls through to video_versions, and with is_video false or
\* absent video_url is never what is returned.
C32_FirstVersionURL(m) ==
    LET versions == Get(m, "video_versions")
    IN  IF IsArr(versions) /\ Len(versions.v) >= 1 /\ IsObj(versions.v[1])
           /\ IsStr(Get(versions.v[1], "url"))
        THEN <<Get(versions.v[1], "url").v>>
        ELSE <<>>

C32_VideoURLThenVersions ==
    returnedURL # <<>> =>
        LET flag     == Get(media, "is_video") = JBool(TRUE)
            videoUrl == Get(media, "video_url")
        IN  /\ flag /\ IsStr(videoUrl) => returnedURL = <<videoUrl.v>>
            /\ ~(flag /\ IsStr(videoUrl)) /\ C32_FirstVersionURL(media) # <<>>
                  => returnedURL = C32_FirstVersionURL(media)
            /\ ~(flag /\ IsStr(videoUrl)) /\ C32_FirstVersionURL(media) = <<>>
                  => returnedURL = <<"">>
            /\ ~flag /\ IsStr(videoUrl) /\ videoUrl.v # ""
                  => returnedURL # <<videoUrl.v>>

\* a media object with is_video = true and no video_url has given the URL
\* of its first video version
C32_Witness ==
    /\ Get(media, "is_video") = JBool(TRUE)
    /\ Get(media, "video_url") = Nil
    /\ IsArr(Get(media, "video_versions"))
    /\ Len(Get(media, "video_versions").v) = 2
    /\ returnedURL = <<"https://cdn.example/vv.mp4">>

----------------------------------------------------------------------------
\* C33: findVideoURL is deterministic: when parseMediaInfo has returned a
\* video for a decoded object and an identifier, its URL is the only one
\* findVideoURL can yield for them (also in Shape D with several keys
\* naming the identifier), and in Shape D an object holding both video_url
\* and videoUrl never yields videoUrl.
C33_OneURLPerObject ==
    /\ pc = "done"
    /\ Len(steps) = 2
    /\ steps[2] = "parseMediaInfo"
    /\ result.kind = "ok"
    => /\ \A r \in findVideoURL(jsonData, shortcode) :
             r.kind = "hit" /\ r.url = result.info.VideoURL
       /\ \A key \in DOMAIN jsonData.v :
             LET value == jsonData.v[key]
             IN  /\ "ROOT_QUERY" \in DOMAIN jsonData.v
                 /\ IsStr(Get(value, "video_url"))
                 /\ IsStr(Get(value, "videoUrl"))
                 /\ Get(value, "video_url") # Get(value, "videoUrl")
                 => result.info.VideoURL # Get(value, "videoUrl").v

----------------------------------------------------------------------------
\* C34: on the raw-text path the scans run in a fixed order and the first
\* hit is returned: a hit of the case-sensitive list ends the path without
\* the fallback being run; only when that list finds nothing the
\* case-insensitive list is scanned and its hit returned; only when that
\* finds nothing as well the preloader payload can give the URL.
C34_RawScansInOrder ==
    /\ pc = "done"
    /\ Len(steps) >= 2
    /\ steps[2] = "extractDirectVideoURL"
    => LET Preloader(un) ==
               /\ un.ok
               /\ result.info.VideoURL = StrOf(PreloaderURL(un.data))
           Third(preloader) ==
               IF result.kind = "ok"
               THEN preloader.found /\ Preloader(Unmarshal(preloader.group))
               ELSE result = Failed(Errorf("no fallback video URL found"))
           Second(insensitive) ==
               /\ steps = <<"extractJSONData", "extractDirectVideoURL",
                            "extractFallbackVideoURL">>
               /\ IF insensitive.found
                  THEN /\ result.kind = "ok"
                       /\ result.info.VideoURL \in unescapeURL(insensitive.group)
                  ELSE Third(PreloaderSubmatch(body))
           FirstScan(sensitive) ==
               IF sensitive.found
               THEN /\ steps = <<"extractJSONData", "extractDirectVideoURL">>
                    /\ result.kind = "ok"
                    /\ result.info.VideoURL \in unescapeURL(sensitive.group)
               ELSE Second(ScanPatterns(body, fallbackVideoPatterns, TRUE, 1))
       IN  FirstScan(ScanPatterns(body, directVideoUrlPatterns, FALSE, 1))

\* the case-sensitive list found nothing on the page and the video came
\* from the case-insensitive list
C34_Witness ==
    /\ pc = "done"
    /\ steps = <<"extractJSONData", "extractDirectVideoURL", "extractFallbackVideoURL">>
    /\ ~ScanPatterns(body, directVideoUrlPatterns, FALSE, 1).found
    /\ result.kind = "ok"
    /\ result.info.VideoURL = "https://cdn.example/u.mp4"

----------------------------------------------------------------------------
\* C35: a candidate answered with a status below 200 or in [300,400), like
\* one that met a transport error, is a soft-fail: the loop goes on to the
\* next candidate; and when the fourth candidate ends in a soft-fail too,
\* the call fails with NotFound naming the identifier, four requests having
\* been made.
C35_SoftFail(a) == a.err \/ a.status < 200 \/ (a.status >= 300 /\ a.status < 400)

----------------------------------------------------------------------------
\* C36: for a streamed request at most one status is written to the
\* client: once the video headers have been sent (200 or 206), the error
\* handler does not write to the response.
C36_OneStatusPerResponse ==
    handler = "handleReel" /\ written # <<>> /\ written[1] \in {200, 206}
    => Len(written) = 1

----------------------------------------------------------------------------
\* the video request is made only for a result of GetMediaInfo, and a
\* failed GetMediaInfo is answered with one error status and no request to
\* the CDN
C37_OnlyAfterSuccess ==
    /\ cdnRequests # <<>> => pc = "done" /\ result.kind = "ok"
    /\ handler = "handleReel" /\ pc = "done" /\ result.kind = "err" /\ written # <<>>
          => /\ Len(written) = 1
             /\ written[1] >= 400
             /\ cdnRequests = <<>>

\* C37: handleReel asks the CDN for the video only after GetMediaInfo has
\* returned a result; a failed GetMediaInfo gets exactly one error response
\* and no CDN request; and when the CDN answers the video request with a
\* status outside [200,300), no video header is sent and the client
\* receives 502.
C37_BadGatewayOnCDNStatus ==
    [][ /\ C37_OnlyAfterSuccess'
        /\ \A c \in CDNAnswers :
              StreamVideo(c) /\ cdnRequests' # <<>> /\ ~c.err /\ ~validateResponse(c) =>
                 /\ written' = <<502>>
                 /\ <<"Content-Type", "video/mp4">> \notin respHeaders'
      ]_vars

----------------------------------------------------------------------------
\* C39: on the routes wrapped with the recovery middleware a panic raised
\* in the handler is recovered: the request passes through Recovery, the
\* only answer written for it is 500, and the next step of the server is
\* the return of the handler chain, after which it accepts requests again.
C39_Panicked == handler = "handleReel" /\ pc = "done" /\ result.kind = "panic"

C39_PanicRecovered ==
    [][ /\ C39_Panicked' => \E k \in 1..Len(chain') : chain'[k] = "Recovery"
        /\ C39_Panicked /\ written = <<>> =>
              C39_Panicked' /\ written' \in {<<>>, <<500>>}
        /\ C39_Panicked /\ written # <<>> =>
              /\ written = <<500>>
              /\ handler' = "" /\ pc' = "idle" /\ result' = Pending
      ]_vars

\* the page made the extraction panic and the request was answered 500
C39_Witness ==
    /\ C39_Panicked
    /\ result.site = "extractJSONData"
    /\ Len(answers) >= 1
    /\ written = <<500>>

\* C38: Server.Start never returns before its context is cancelled; once the
\* context is cancelled it shuts the server down and eventually returns,
\* and what it returns is what Shutdown returned: nil when no request was
\* still being served, never the error of a listener that failed to start
\* (that one is only logged and Start keeps blocking). Stop before Start
\* returns nil and changes nothing else.
C38_Returning == srv.pc = "shutdown" /\ srv'.pc = "returned"

C38_StartBlocksUntilCancelled ==
    /\ [](srv.pc \in {"shutdown", "returned"} => srv.ctxDone)
    /\ [](srv.ret \in {"", "nil", "deadline"})
    /\ [](srv.pc = "returned" <=> srv.ret # "")
    /\ [][srv'.pc = "returned" /\ srv.pc # "returned" => C38_Returning]_vars
    /\ [][C38_Returning =>
            /\ srv'.ret \in { r.err : r \in Shutdown(srv) }
            /\ (srv.conns = 0 => srv'.ret = "nil")
            /\ srv'.listener # "listening"]_vars
    /\ [][srv.listener = "none" /\ srv'.listener = "failed" =>
            srv' = [srv EXCEPT !.listener = "failed"]]_vars
    /\ [][srv.pc = "new" /\ srv'.stopped # srv.stopped =>
            srv' = [srv EXCEPT !.stopped = "nil"]]_vars
    /\ ((srv.pc = "blocked" /\ srv.ctxDone) ~> (srv.pc = "returned"))

\* the listener failed to start, the context was cancelled and Start
\* returned nil
C38_Witness ==
    /\ srv.listener = "failed"
    /\ srv.ctxDone
    /\ srv.pc = "returned"
    /\ srv.ret = "nil"

====
